---- MODULE Spec2Model ----
(***************************************************************************)
(* Room allocation of the roommate matcher: the allocation service         *)
(* (backend/app/services/room_allocation_service.py) and the request       *)
(* handlers that persist its results (backend/app/api/room_allocation.py)  *)
(* over the tables of backend/app/database/db.py; the match scorer         *)
(* (backend/app/api/matching.py) and the model store                       *)
(* (backend/app/services/ml_service.py).                                   *)
(*                                                                         *)
(* Text values that the code inspects character by character (budget       *)
(* ranges, location preferences) are sequences of one-character strings.   *)
(* Scores are kept in exact integer units (hundredths, or thousandths with *)
(* the IEEE-754 rounding of the running sum where the code orders floats). *)
(***************************************************************************)
EXTENDS Integers, Sequences, FiniteSets, Bags, TLC

VARIABLES
    users,             \* rows of table users (allocation-relevant columns)
    rooms,             \* rows of table rooms
    room_assignments,  \* table room_assignments: a bag of [user_id, room_id, status]
    is_occupied,       \* column rooms.is_occupied, by room id
    strategy,          \* strategy name of the request under study
    response,          \* response of the last completed request
    phase,             \* position of the allocate-then-persist harness
    pc,                \* position of each interleaved request
    req,               \* local variables of each interleaved request
    input,             \* arguments of the function or request under study
    output,            \* its result
    ml_service,        \* the process-wide RoommateMatchingML instance
    model_files,       \* directory models/: file name -> pickled object
    clock,             \* datetime.now(), as the index of the current second
    compatibility_scores  \* table compatibility_scores: a set of rows

mlvars == <<input, output, ml_service, model_files, clock, compatibility_scores>>

allocvars == <<users, rooms, room_assignments, is_occupied, strategy, response, pc, req>>

vars == <<users, rooms, room_assignments, is_occupied, strategy, response, phase, pc, req,
          input, output, ml_service, model_files, clock, compatibility_scores>>

(***************************************************************************)
(* Bounds of the model.                                                    *)
(***************************************************************************)
\* the longest list of users and of rooms handed to the allocation service
MaxUsers == 3
MaxRooms == 2
\* the number of rows of table users in the request-level specifications
NumUsers == 2

(***************************************************************************)
(* Python values.                                                          *)
(***************************************************************************)
\* None in a text column (a sequence that no text equals: its element is not a character)
NoneVal == <<"<None>">>
\* "room_id": None of an unassigned allocation record; room ids are SERIAL, from 1
NoRoom == 0

Upper == <<"A","B","C","D","E","F","G","H","I","J","K","L","M",
           "N","O","P","Q","R","S","T","U","V","W","X","Y","Z">>
Lower == <<"a","b","c","d","e","f","g","h","i","j","k","l","m",
           "n","o","p","q","r","s","t","u","v","w","x","y","z">>
Digits == <<"0","1","2","3","4","5","6","7","8","9">>

\* a list built element by element: each element is computed once
List(f) == SubSeq(f, 1, Len(f))

\* str.lower()
LowerChar(c) ==
    IF \E i \in 1..Len(Upper) : Upper[i] = c
    THEN Lower[CHOOSE i \in 1..Len(Upper) : Upper[i] = c]
    ELSE c

ToLower(s) == List([i \in 1..Len(s) |-> LowerChar(s[i])])

\* str.replace(ch, '')
RemoveChar(s, ch) == SelectSeq(s, LAMBDA c : c # ch)

\* sub in s
Contains(s, sub) ==
    \E i \in 0..(Len(s) - Len(sub)) : SubSeq(s, i + 1, i + Len(sub)) = sub

IsDigit(c) == \E i \in 1..Len(Digits) : Digits[i] = c

DigitVal(c) == (CHOOSE i \in 1..Len(Digits) : Digits[i] = c) - 1

RECURSIVE DigitsToInt(_)
DigitsToInt(ds) ==
    IF ds = <<>> THEN 0
    ELSE 10 * DigitsToInt(SubSeq(ds, 1, Len(ds) - 1)) + DigitVal(ds[Len(ds)])

\* re.findall(r'\d+', s)[0]: the first maximal run of digits of s (<<>> if none)
FirstNumber(s) ==
    IF \A i \in 1..Len(s) : ~IsDigit(s[i]) THEN <<>>
    ELSE LET b == CHOOSE i \in 1..Len(s) :
                      IsDigit(s[i]) /\ \A j \in 1..(i - 1) : ~IsDigit(s[j])
             e == CHOOSE i \in b..Len(s) :
                      /\ \A j \in b..i : IsDigit(s[j])
                      /\ (i = Len(s) \/ ~IsDigit(s[i + 1]))
         IN  SubSeq(s, b, e)

\* the budget-range texts that the parser recognises, after lower-casing
T_under     == <<"u","n","d","e","r">>
T_500_750   == <<"5","0","0","-","7","5","0">>
T_500_800   == <<"5","0","0","-","8","0","0">>
T_750_1000  == <<"7","5","0","-","1","0","0","0">>
T_800_1000  == <<"8","0","0","-","1","0","0","0">>
T_1000_1500 == <<"1","0","0","0","-","1","5","0","0">>
T_1500plus  == <<"1","5","0","0","+">>
T_over      == <<"o","v","e","r">>
T_any       == <<"a","n","y">>

\* the parser without the removal of ','
ParseBudget_KeepsComma(budget_range) ==
    IF budget_range = NoneVal THEN 1000
    ELSE LET b == RemoveChar(ToLower(budget_range), "$")
         IN  IF Contains(b, T_under) THEN 500
             ELSE IF Contains(b, T_500_750) \/ Contains(b, T_500_800) THEN 625
             ELSE IF Contains(b, T_750_1000) \/ Contains(b, T_800_1000) THEN 875
             ELSE IF Contains(b, T_1000_1500) THEN 1250
             ELSE IF Contains(b, T_1500plus) \/ Contains(b, T_over) THEN 2000
             ELSE IF FirstNumber(b) # <<>> THEN DigitsToInt(FirstNumber(b))
             ELSE 1000

\* the body of RoomAllocationService._extract_budget_value (None.lower() raises
\* and the bare except returns the default)
ParseBudget(budget_range) ==
    IF budget_range = NoneVal THEN 1000
    ELSE LET b == RemoveChar(RemoveChar(ToLower(budget_range), "$"), ",")
         IN  IF Contains(b, T_under) THEN 500
             ELSE IF Contains(b, T_500_750) \/ Contains(b, T_500_800) THEN 625
             ELSE IF Contains(b, T_750_1000) \/ Contains(b, T_800_1000) THEN 875
             ELSE IF Contains(b, T_1000_1500) THEN 1250
             ELSE IF Contains(b, T_1500plus) \/ Contains(b, T_over) THEN 2000
             ELSE IF FirstNumber(b) # <<>> THEN DigitsToInt(FirstNumber(b))
             ELSE 1000

\* the budget texts of the sample data
S_under500 == <<"U","n","d","e","r"," ","$","5","0","0">>
S_1500plus == <<"$","1",",","5","0","0","+">>
S_text77   == <<"r","a","n","d","o","m"," ","t","e","x","t"," ","7","7">>
S_800_1000 == <<"$","8","0","0","-","1","0","0","0">>

\* ParseBudget of the sample texts, computed once
ParsedBudgets ==
    [t \in {S_under500, S_1500plus, S_text77, S_800_1000} |-> ParseBudget(t)]

\* RoomAllocationService._extract_budget_value
ExtractBudgetValue(budget_range) ==
    IF budget_range \in DOMAIN ParsedBudgets
    THEN ParsedBudgets[budget_range]
    ELSE ParseBudget(budget_range)

\* RoomAllocationService._cleanliness_to_number
CleanlinessToNumber(level) ==
    CASE level = "very_clean"   -> 4
      [] level = "clean"        -> 3
      [] level = "moderate"     -> 2
      [] level = "relaxed"      -> 1
      [] level = "very_relaxed" -> 0
      [] OTHER                  -> 2

\* RoomAllocationService._noise_to_number
NoiseToNumber(level) ==
    CASE level = "very_quiet"    -> 0
      [] level = "quiet"         -> 1
      [] level = "moderate"      -> 2
      [] level = "tolerant"      -> 3
      [] level = "very_tolerant" -> 4
      [] OTHER                   -> 2

Abs(x) == IF x < 0 THEN -x ELSE x

\* compatibility_score of _are_users_compatible, in hundredths
CompatibilityScore(user1, user2) ==
    (IF user1.sleep_schedule = user2.sleep_schedule THEN 30
     ELSE IF user1.sleep_schedule = "flexible" \/ user2.sleep_schedule = "flexible" THEN 15
     ELSE 0)
  + (IF user1.cleanliness_level = user2.cleanliness_level THEN 30
     ELSE IF Abs(CleanlinessToNumber(user1.cleanliness_level)
                 - CleanlinessToNumber(user2.cleanliness_level)) <= 1 THEN 15
     ELSE 0)
  + (IF user1.noise_tolerance = user2.noise_tolerance THEN 20
     ELSE IF Abs(NoiseToNumber(user1.noise_tolerance)
                 - NoiseToNumber(user2.noise_tolerance)) <= 1 THEN 10
     ELSE 0)
  + (IF user1.pet_preference = user2.pet_preference THEN 20 ELSE 0)

\* every pair of users taken as compatible
AreUsersCompatible_Any(user1, user2) == TRUE

\* RoomAllocationService._are_users_compatible (threshold 0.6)
AreUsersCompatible(user1, user2) == CompatibilityScore(user1, user2) >= 60

\* str(room['floor_number'])
RECURSIVE IntToStr(_)
IntToStr(n) ==
    IF n < 10 THEN <<Digits[n + 1]>>
    ELSE IntToStr(n \div 10) \o <<Digits[(n % 10) + 1]>>

\* user.get('location_preference', '').lower() raises on None
ScoreRaises(user, room) == user.location_preference = NoneVal

\* the location texts of the sample data
S_floor2   == <<"F","l","o","o","r"," ","2">>
S_downtown == <<"D","o","w","n","t","o","w","n">>

\* "Location preference" of _calculate_user_room_score, in hundredths
LocationPart(location_preference, floor_number) ==
    LET user_location == ToLower(location_preference)
        room_location == ToLower(IntToStr(floor_number))
    IN  IF Contains(room_location, user_location) \/ Contains(user_location, room_location)
        THEN 30
        ELSE IF user_location = T_any THEN 15
        ELSE 0

\* LocationPart of the sample texts and floors, computed once
LocationParts ==
    [x \in {T_any, S_floor2, S_downtown} \X (1..3) |-> LocationPart(x[1], x[2])]

\* the four additions of _calculate_user_room_score, in hundredths
ScoreParts(user, room) ==
    LET user_budget == ExtractBudgetValue(user.budget_range)
        room_price  == room.monthly_rent
        loc         == <<user.location_preference, room.floor_number>>
    IN  << IF room_price <= user_budget THEN 40
           ELSE IF 5 * room_price <= 6 * user_budget THEN 20
           ELSE 0,
           IF loc \in DOMAIN LocationParts
           THEN LocationParts[loc]
           ELSE LocationPart(loc[1], loc[2]),
           IF room.amenities THEN 10 ELSE 0,
           IF user.social_preference \in {"social", "very_social"} /\ room.room_type = "shared"
           THEN 20 ELSE 0 >>

\* rounding of the float sum 0.0 + p[1] + p[2] + p[3] + p[4] (zero parts are not
\* added) against the decimal value, in units of the last place
FloatSkew(p) ==
    CASE p \in {<<40, 30, 10, 0>>, <<40, 30, 0, 20>>, <<20, 15, 10, 20>>, <<20, 15, 10, 0>>} -> -1
      [] p \in {<<40, 15, 10, 20>>, <<40, 0, 0, 20>>, <<20, 0, 10, 0>>,
                <<0, 30, 10, 20>>, <<0, 0, 10, 20>>} -> 1
      [] OTHER -> 0

\* RoomAllocationService._calculate_user_room_score, in thousandths, ordered as
\* the floats are
CalculateUserRoomScore(user, room) ==
    LET p == ScoreParts(user, room)
    IN  10 * (p[1] + p[2] + p[3] + p[4]) + FloatSkew(p)

\* the position of each element after a stable sort by the key sequence keys
\* (before(a, b): key a sorts strictly before key b)
SortRanks(keys, before(_, _)) ==
    List([i \in 1..Len(keys) |->
            Cardinality({j \in 1..Len(keys) :
                            before(keys[j], keys[i]) \/ (keys[j] = keys[i] /\ j < i)}) + 1])

\* sorted(seq, key=...): stable, by the keys ks (ks[i] is the key of seq[i])
StableSortAsc(seq, ks) ==
    LET rk == SortRanks(List(ks), LAMBDA a, b : a < b)
    IN  List([p \in 1..Len(seq) |-> seq[CHOOSE i \in 1..Len(seq) : rk[i] = p]])

\* sorted(seq, key=..., reverse=True): stable, equal keys keep their order
StableSortDesc(seq, ks) ==
    LET rk == SortRanks(List(ks), LAMBDA a, b : a > b)
    IN  List([p \in 1..Len(seq) |-> seq[CHOOSE i \in 1..Len(seq) : rk[i] = p]])

(***************************************************************************)
(* The allocation strategies.  An allocation record keeps the fields that   *)
(* the handlers and the claims read.                                        *)
(***************************************************************************)
Alloc(user, room_id, assigned, reason) ==
    [user_id |-> user.id, room_id |-> room_id, assigned |-> assigned, reason |-> reason]

\* "Limit group size to 4 for practical room sharing"
MaxGroupSize == 4

\* the inner loop of _group_users_by_compatibility: the users after/before
\* users[i] that join the group of users[i]
RECURSIVE GroupInner(_, _, _, _, _)
GroupInner(us, i, j, group, used_users) ==
    IF j > Len(us) THEN [group |-> group, used_users |-> used_users]
    ELSE IF j # i /\ us[j].id \notin used_users /\ AreUsersCompatible(us[i], us[j])
    THEN LET g == Append(group, us[j])
             u == used_users \cup {us[j].id}
         IN  IF Len(g) >= MaxGroupSize
             THEN [group |-> g, used_users |-> u]
             ELSE GroupInner(us, i, j + 1, g, u)
    ELSE GroupInner(us, i, j + 1, group, used_users)

RECURSIVE GroupOuter(_, _, _, _)
GroupOuter(us, i, groups, used_users) ==
    IF i > Len(us) THEN groups
    ELSE IF us[i].id \in used_users THEN GroupOuter(us, i + 1, groups, used_users)
    ELSE LET r == GroupInner(us, i, 1, <<us[i]>>, used_users \cup {us[i].id})
         IN  GroupOuter(us, i + 1, Append(groups, r.group), r.used_users)

\* RoomAllocationService._group_users_by_compatibility
GroupUsersByCompatibility(us) ==
    IF Len(us) <= 1
    THEN (IF us = <<>> THEN <<>> ELSE <<us>>)
    ELSE GroupOuter(us, 1, <<>>, {})

\* the capacity check left out
RoomFits_Always(room, group) == TRUE

\* "Check if room can accommodate the group"
RoomFits(room, group) == room.capacity >= Len(group)

\* "Room too small for group, try to split": one room per user of the group
RECURSIVE CompatSplit(_, _, _, _, _)
CompatSplit(group, k, sorted_rooms, room_index, allocations) ==
    IF k > Len(group) THEN [room_index |-> room_index, allocations |-> allocations]
    ELSE IF room_index < Len(sorted_rooms)
    THEN CompatSplit(group, k + 1, sorted_rooms, room_index + 1,
             Append(allocations,
                    Alloc(group[k], sorted_rooms[room_index + 1].id, TRUE, "compatibility_split")))
    ELSE CompatSplit(group, k + 1, sorted_rooms, room_index,
             Append(allocations, Alloc(group[k], NoRoom, FALSE, "no_rooms_available")))

\* "Allocate groups to rooms" (room_index counts the rooms consumed)
RECURSIVE CompatGroups(_, _, _, _, _)
CompatGroups(groups, g, sorted_rooms, room_index, allocations) ==
    IF g > Len(groups) \/ room_index >= Len(sorted_rooms)
    THEN [room_index |-> room_index, allocations |-> allocations]
    ELSE LET group == groups[g]
             room  == sorted_rooms[room_index + 1]
         IN  IF RoomFits(room, group)
             THEN CompatGroups(groups, g + 1, sorted_rooms, room_index + 1,
                      allocations \o [k \in 1..Len(group) |->
                                         Alloc(group[k], room.id, TRUE, "compatibility_group")])
             ELSE LET r == CompatSplit(group, 1, sorted_rooms, room_index, allocations)
                  IN  CompatGroups(groups, g + 1, sorted_rooms, r.room_index, r.allocations)

\* "Handle remaining users" of _allocate_by_compatibility
RECURSIVE CompatRemaining(_, _, _, _, _)
CompatRemaining(us, k, sorted_rooms, room_index, allocations) ==
    IF k > Len(us) THEN allocations
    ELSE IF \E a \in 1..Len(allocations) : allocations[a].user_id = us[k].id
    THEN CompatRemaining(us, k + 1, sorted_rooms, room_index, allocations)
    ELSE IF room_index < Len(sorted_rooms)
    THEN CompatRemaining(us, k + 1, sorted_rooms, room_index + 1,
             Append(allocations,
                    Alloc(us[k], sorted_rooms[room_index + 1].id, TRUE, "remaining_user")))
    ELSE CompatRemaining(us, k + 1, sorted_rooms, room_index,
             Append(allocations, Alloc(us[k], NoRoom, FALSE, "no_rooms_available")))

\* RoomAllocationService._allocate_by_compatibility
AllocateByCompatibility(us, rs) ==
    LET user_groups  == GroupUsersByCompatibility(us)
        sorted_rooms == StableSortDesc(rs, [i \in 1..Len(rs) |-> rs[i].capacity])
        r            == CompatGroups(user_groups, 1, sorted_rooms, 0, <<>>)
    IN  CompatRemaining(us, 1, sorted_rooms, r.room_index, r.allocations)

\* the budget test left out
BudgetFits_Always(room_price, user_budget) == TRUE

\* the budget test of the two-pointer loop
BudgetFits(room_price, user_budget) == room_price <= user_budget

\* the while loop of _allocate_by_budget
RECURSIVE BudgetLoop(_, _, _, _, _)
BudgetLoop(sorted_users, sorted_rooms, user_index, room_index, allocations) ==
    IF ~(user_index < Len(sorted_users) /\ room_index < Len(sorted_rooms))
    THEN [user_index |-> user_index, allocations |-> allocations]
    ELSE LET user == sorted_users[user_index + 1]
             room == sorted_rooms[room_index + 1]
         IN  IF BudgetFits(room.monthly_rent, ExtractBudgetValue(user.budget_range))
             THEN BudgetLoop(sorted_users, sorted_rooms, user_index + 1, room_index + 1,
                      Append(allocations, Alloc(user, room.id, TRUE, "budget_match")))
             ELSE BudgetLoop(sorted_users, sorted_rooms, user_index, room_index + 1,
                      allocations)

\* RoomAllocationService._allocate_by_budget
AllocateByBudget(us, rs) ==
    LET sorted_users ==
            StableSortAsc(us, [i \in 1..Len(us) |-> ExtractBudgetValue(us[i].budget_range)])
        sorted_rooms == StableSortAsc(rs, [i \in 1..Len(rs) |-> rs[i].monthly_rent])
        r            == BudgetLoop(sorted_users, sorted_rooms, 0, 0, <<>>)
    IN  r.allocations \o
        [k \in 1..(Len(sorted_users) - r.user_index) |->
            Alloc(sorted_users[r.user_index + k], NoRoom, FALSE, "budget_too_low")]

\* RoomAllocationService._allocate_by_location: location_groups is a dict, so
\* the users come grouped by location, the groups in order of first appearance
AllocateByLocation(us, rs) ==
    LET first(i) == CHOOSE j \in 1..i :
                        /\ us[j].location_preference = us[i].location_preference
                        /\ \A h \in 1..(j - 1) :
                               us[h].location_preference # us[i].location_preference
        grouped      == StableSortAsc(us, [i \in 1..Len(us) |-> first(i)])
        sorted_rooms == StableSortAsc(rs, [i \in 1..Len(rs) |-> rs[i].floor_number])
    IN  List([k \in 1..Len(grouped) |->
            IF k <= Len(sorted_rooms)
            THEN Alloc(grouped[k], sorted_rooms[k].id, TRUE, "location_match")
            ELSE Alloc(grouped[k], NoRoom, FALSE, "no_rooms_available")])

\* "Greedy allocation" of _allocate_balanced over the sorted pairs
RECURSIVE BalancedGreedy(_, _, _, _, _)
BalancedGreedy(pairs, k, assigned_users, assigned_rooms, allocations) ==
    IF k > Len(pairs)
    THEN [assigned_users |-> assigned_users, allocations |-> allocations]
    ELSE LET user == pairs[k].user
             room == pairs[k].room
         IN  IF user.id \notin assigned_users /\ room.id \notin assigned_rooms
             THEN BalancedGreedy(pairs, k + 1, assigned_users \cup {user.id},
                      assigned_rooms \cup {room.id},
                      Append(allocations, Alloc(user, room.id, TRUE, "balanced_allocation")))
             ELSE BalancedGreedy(pairs, k + 1, assigned_users, assigned_rooms, allocations)

\* RoomAllocationService._allocate_balanced (us and rs are not empty)
AllocateBalanced(us, rs) ==
    LET m      == Len(rs)
        pairs  == List([p \in 1..(Len(us) * m) |->
                      [user |-> us[((p - 1) \div m) + 1], room |-> rs[((p - 1) % m) + 1]]])
        sorted == StableSortDesc(pairs,
                      [p \in 1..Len(pairs) |->
                          CalculateUserRoomScore(pairs[p].user, pairs[p].room)])
        r      == BalancedGreedy(sorted, 1, {}, {}, <<>>)
        left   == SelectSeq(us, LAMBDA u : u.id \notin r.assigned_users)
    IN  r.allocations \o
        [k \in 1..Len(left) |-> Alloc(left[k], NoRoom, FALSE, "no_rooms_available")]

\* whether the strategy function raises on these inputs
StrategyRaises(us, rs, name) ==
    /\ name = "balanced"
    /\ \E i \in 1..Len(us), j \in 1..Len(rs) : ScoreRaises(us[i], rs[j])

\* self.allocation_strategies
Strategies == {"compatibility_first", "budget_first", "location_first", "balanced"}

RunStrategy(us, rs, name) ==
    CASE name = "compatibility_first" -> AllocateByCompatibility(us, rs)
      [] name = "budget_first"        -> AllocateByBudget(us, rs)
      [] name = "location_first"      -> AllocateByLocation(us, rs)
      [] name = "balanced"            -> AllocateBalanced(us, rs)

\* self.allocation_strategies.get(strategy)
KnownStrategy(name) == name \in Strategies

Failure(message) == [success |-> FALSE, message |-> message, allocations |-> <<>>]

\* allocation_strategies.get(strategy, self._allocate_by_location): an
\* unrecognized name falls back to a default strategy
ServiceAllocateRooms_Default(us, rs, name) ==
    IF us = <<>> THEN Failure("No users to allocate")
    ELSE IF rs = <<>> THEN Failure("No rooms available")
    ELSE IF StrategyRaises(us, rs, name) THEN Failure("exception")
    ELSE [success |-> TRUE, message |-> "",
          allocations |-> RunStrategy(us, rs, IF KnownStrategy(name) THEN name
                                              ELSE "location_first")]

\* RoomAllocationService.allocate_rooms
ServiceAllocateRooms(us, rs, name) ==
    IF us = <<>> THEN Failure("No users to allocate")
    ELSE IF rs = <<>> THEN Failure("No rooms available")
    ELSE IF ~KnownStrategy(name) THEN Failure("Unknown allocation strategy")
    ELSE IF StrategyRaises(us, rs, name) THEN Failure("exception")
    ELSE [success |-> TRUE, message |-> "", allocations |-> RunStrategy(us, rs, name)]

(***************************************************************************)
(* The tables.  room_assignments is a bag of rows, the SERIAL id column    *)
(* being the identity of a copy; UNIQUE(user_id, room_id) is kept by the   *)
(* ON CONFLICT clause of the only INSERT.                                  *)
(***************************************************************************)
Row(user_id, room_id, status) ==
    [user_id |-> user_id, room_id |-> room_id, status |-> status]

RowBag(row, n) == IF n > 0 THEN [x \in {row} |-> n] ELSE EmptyBag

\* the rows of the bag ra that satisfy Test, with multiplicity
Count(ra, Test(_)) ==
    BagCardinality([x \in {y \in BagToSet(ra) : Test(y)} |-> ra[x]])

\* ... WHERE user_id = u AND status = 'active'
ActiveOfUser(ra, u) == {x \in BagToSet(ra) : x.user_id = u /\ x.status = "active"}

\* SELECT COUNT(*) FROM room_assignments WHERE room_id = r AND status = 'active'
ActiveInRoom(ra, r) == Count(ra, LAMBDA x : x.room_id = r /\ x.status = "active")

ActiveCountOfUser(ra, u) == Count(ra, LAMBDA x : x.user_id = u /\ x.status = "active")

\* a plain INSERT into a table without the unique constraint
InsertAssignment_Plain(ra, u, r) == ra (+) RowBag(Row(u, r, "active"), 1)

\* INSERT INTO room_assignments ... ON CONFLICT (user_id, room_id)
\* DO UPDATE SET status = 'active'
InsertAssignment(ra, u, r) ==
    LET old == Row(u, r, "inactive")
        new == Row(u, r, "active")
    IN  IF BagIn(new, ra) THEN ra
        ELSE IF BagIn(old, ra)
        THEN (ra (-) RowBag(old, CopiesIn(old, ra))) (+) RowBag(new, CopiesIn(old, ra))
        ELSE ra (+) RowBag(new, 1)

\* UPDATE room_assignments SET status = 'inactive' WHERE id = (the id of one copy of row)
DeactivateAssignment(ra, row) ==
    (ra (-) RowBag(row, 1)) (+) RowBag(Row(row.user_id, row.room_id, "inactive"), 1)

\* the occupancy update left out
OccupyRoom_Skipped(occ, r) == occ

\* UPDATE rooms SET is_occupied = TRUE WHERE id = r
OccupyRoom(occ, r) == [occ EXCEPT ![r] = TRUE]

\* the condition under which _store_allocations writes an allocation
Storable(a) == a.assigned /\ a.room_id # NoRoom

\* the db.execute calls of _store_allocations, in order
RECURSIVE StoreStatements(_)
StoreStatements(allocations) ==
    IF allocations = <<>> THEN <<>>
    ELSE LET a == Head(allocations)
         IN  (IF Storable(a)
              THEN << [op |-> "insert", user_id |-> a.user_id, room_id |-> a.room_id],
                      [op |-> "occupy", user_id |-> a.user_id, room_id |-> a.room_id] >>
              ELSE <<>>) \o StoreStatements(Tail(allocations))

\* one db.execute: each statement commits on its own (no transaction is opened)
Execute(db, stmt) ==
    IF stmt.op = "insert"
    THEN [db EXCEPT !.ra = InsertAssignment(db.ra, stmt.user_id, stmt.room_id)]
    ELSE [db EXCEPT !.occ = OccupyRoom(db.occ, stmt.room_id)]

\* the database after the first k statements
RECURSIVE ExecutePrefix(_, _, _)
ExecutePrefix(db, stmts, k) ==
    IF k = 0 THEN db
    ELSE Execute(ExecutePrefix(db, stmts, k - 1), stmts[k])

\* _store_allocations running to completion
StoreAllocations(db, allocations) ==
    LET stmts == StoreStatements(allocations)
    IN  ExecutePrefix(db, stmts, Len(stmts))

DB == [ra |-> room_assignments, occ |-> is_occupied]

UserIds == {users[i].id : i \in 1..Len(users)}
RoomIds == {rooms[i].id : i \in 1..Len(rooms)}

\* the sequences that list the elements of seq selected by Test, in any order
\* (a SELECT without ORDER BY)
FetchOrders(seq, Test(_)) ==
    LET idx == {i \in 1..Len(seq) : Test(seq[i])}
    IN  {List([k \in 1..Cardinality(idx) |-> seq[f[k]]]) :
            f \in {g \in [1..Cardinality(idx) -> idx] :
                      \A a, b \in 1..Cardinality(idx) : a # b => g[a] # g[b]}}

\* the join without its "WHERE ra.id IS NULL" filter
Unassigned_AllUsers(ra, u) == TRUE

\* users u LEFT JOIN room_assignments ra ON ... ra.status = 'active' WHERE ra.id IS NULL
Unassigned(ra, u) == ActiveOfUser(ra, u.id) = {}

\* the query without its WHERE clause
Available_AllRooms(occ, r) == TRUE

\* rooms WHERE is_occupied = FALSE
Available(occ, r) == ~occ[r.id]

\* api/room_allocation.py allocate_rooms, after its two reads
HandleAllocateRooms(db, us, rs, name) ==
    IF us = <<>>
    THEN [db |-> db, response |-> Failure("No users available for allocation")]
    ELSE IF rs = <<>>
    THEN [db |-> db, response |-> Failure("No rooms available for allocation")]
    ELSE CHOOSE h \in
             {[db |-> IF result.success THEN StoreAllocations(db, result.allocations) ELSE db,
               response |-> result] : result \in {ServiceAllocateRooms(us, rs, name)}} : TRUE

\* api/room_allocation.py allocate_single_user, after its reads (us holds the
\* user row, or is empty when there is no such user)
HandleAllocateSingleUser(db, us, rs, name) ==
    IF us = <<>>
    THEN [db |-> db, response |-> Failure("User not found")]
    ELSE IF rs = <<>>
    THEN [db |-> db, response |-> Failure("No rooms available for allocation")]
    ELSE CHOOSE h \in
             {[db |-> IF result.success /\ result.allocations # <<>>
                      THEN StoreAllocations(db, result.allocations) ELSE db,
               response |-> result] : result \in {ServiceAllocateRooms(us, rs, name)}} : TRUE

NoResponse == Failure("no request yet")

\* the match scorer and the model store take no part in the allocation requests
MLUnused ==
    /\ input = "none"
    /\ output = "none"
    /\ ml_service = "none"
    /\ model_files = "none"
    /\ clock = 0
    /\ compatibility_scores = {}

Idle == [p \in {"p1", "p2"} |-> "unused"]
NoReq == [p \in {"p1", "p2"} |-> <<>>]

StrategyNames == Strategies \cup {"unknown"}

(***************************************************************************)
(* The sample data: four user profiles and three kinds of room.            *)
(***************************************************************************)
Profiles == <<
    [sleep_schedule |-> "early_bird", cleanliness_level |-> "clean",
     noise_tolerance |-> "quiet", pet_preference |-> "no_pets",
     social_preference |-> "social", budget_range |-> S_under500,
     location_preference |-> NoneVal],
    [sleep_schedule |-> "early_bird", cleanliness_level |-> "moderate",
     noise_tolerance |-> "quiet", pet_preference |-> "no_pets",
     social_preference |-> "moderate", budget_range |-> S_1500plus,
     location_preference |-> T_any],
    [sleep_schedule |-> "night_owl", cleanliness_level |-> "relaxed",
     noise_tolerance |-> "noisy", pet_preference |-> "love_pets",
     social_preference |-> "very_social", budget_range |-> S_text77,
     location_preference |-> S_floor2],
    [sleep_schedule |-> "flexible", cleanliness_level |-> "clean",
     noise_tolerance |-> "moderate", pet_preference |-> "no_pets",
     social_preference |-> "introvert", budget_range |-> S_800_1000,
     location_preference |-> S_downtown] >>

RoomKinds == <<
    [capacity |-> 2, monthly_rent |-> 800, floor_number |-> 1, amenities |-> TRUE,
     room_type |-> "shared"],
    [capacity |-> 1, monthly_rent |-> 450, floor_number |-> 2, amenities |-> FALSE,
     room_type |-> "single"],
    [capacity |-> 1, monthly_rent |-> 1300, floor_number |-> 2, amenities |-> TRUE,
     room_type |-> "shared"] >>

UserRow(id, p) ==
    [id |-> id,
     sleep_schedule |-> Profiles[p].sleep_schedule,
     cleanliness_level |-> Profiles[p].cleanliness_level,
     noise_tolerance |-> Profiles[p].noise_tolerance,
     pet_preference |-> Profiles[p].pet_preference,
     social_preference |-> Profiles[p].social_preference,
     budget_range |-> Profiles[p].budget_range,
     location_preference |-> Profiles[p].location_preference]

RoomRow(id, k) ==
    [id |-> id,
     capacity |-> RoomKinds[k].capacity,
     monthly_rent |-> RoomKinds[k].monthly_rent,
     floor_number |-> RoomKinds[k].floor_number,
     amenities |-> RoomKinds[k].amenities,
     room_type |-> RoomKinds[k].room_type]

\* the tables of the request-level specifications: user i has profile i
\* (cyclically), and there is one room of each kind
TableUsers == List([i \in 1..NumUsers |-> UserRow(i, ((i - 1) % Len(Profiles)) + 1)])
TableRooms == List([j \in 1..Len(RoomKinds) |-> RoomRow(j, j)])

(***************************************************************************)
(* Spec: requests that run to completion one at a time.                    *)
(***************************************************************************)
Init ==
    /\ users = TableUsers
    /\ rooms = TableRooms
    /\ room_assignments = EmptyBag
    /\ is_occupied = [r \in RoomIds |-> FALSE]
    /\ strategy = "none"
    /\ response = NoResponse
    /\ phase = "requests"
    /\ pc = Idle
    /\ req = NoReq
    /\ MLUnused

\* POST /allocate-rooms/ (the response goes to the client; it is not kept)
AllocateRooms ==
    \E name \in StrategyNames :
    \E us \in FetchOrders(users, LAMBDA u : Unassigned(room_assignments, u)) :
    \E rs \in FetchOrders(rooms, LAMBDA r : Available(is_occupied, r)) :
    \E h \in {HandleAllocateRooms(DB, us, rs, name)} :
        /\ room_assignments' = h.db.ra
        /\ is_occupied' = h.db.occ
        /\ UNCHANGED <<mlvars, users, rooms, strategy, response, phase, pc, req>>

\* POST /allocate-room/{user_id}
AllocateSingleUser ==
    \E user_id \in 0..NumUsers :
    \E name \in StrategyNames :
        IF ActiveOfUser(room_assignments, user_id) # {}
        THEN UNCHANGED vars
        ELSE \E us \in FetchOrders(users, LAMBDA u : u.id = user_id) :
             \E rs \in FetchOrders(rooms, LAMBDA r : Available(is_occupied, r)) :
             \E h \in {HandleAllocateSingleUser(DB, us, rs, name)} :
                 /\ room_assignments' = h.db.ra
                 /\ is_occupied' = h.db.occ
                 /\ UNCHANGED <<mlvars, users, rooms, strategy, response, phase, pc, req>>

\* POST /remove-assignment/{user_id}
RemoveAssignment ==
    \E user_id \in 0..NumUsers :
        IF ActiveOfUser(room_assignments, user_id) = {}
        THEN UNCHANGED vars
        ELSE \E assignment \in ActiveOfUser(room_assignments, user_id) :
                 LET ra == DeactivateAssignment(room_assignments, assignment)
                 IN  /\ room_assignments' = ra
                     /\ is_occupied' = IF ActiveInRoom(ra, assignment.room_id) = 0
                                       THEN [is_occupied EXCEPT ![assignment.room_id] = FALSE]
                                       ELSE is_occupied
                     /\ UNCHANGED <<mlvars, users, rooms, strategy, response, phase, pc, req>>

Next == AllocateRooms \/ AllocateSingleUser \/ RemoveAssignment

Spec == Init /\ [][Next]_vars

\* C1: requests run one at a time leave every user with at most one active assignment
C1_AtMostOneActivePerUser ==
    \A u \in UserIds : ActiveCountOfUser(room_assignments, u) <= 1

\* a user who was removed from one room and allocated again to another
C1_Witness ==
    \E x, y \in BagToSet(room_assignments) :
        /\ x.user_id = y.user_id
        /\ x.status = "active" /\ y.status = "inactive"
        /\ \E z \in BagToSet(room_assignments) : z.user_id # x.user_id /\ z.status = "active"

\* C2: requests run one at a time never put more active assignments on a room
\* than its capacity
C2_WithinCapacity ==
    \A j \in 1..Len(rooms) : ActiveInRoom(room_assignments, rooms[j].id) <= rooms[j].capacity

\* a room of capacity 2 that is full, next to a room that a user has left
C2_Witness ==
    /\ \E j \in 1..Len(rooms) :
           rooms[j].capacity = 2 /\ ActiveInRoom(room_assignments, rooms[j].id) = 2
    /\ \E x \in BagToSet(room_assignments) : x.status = "inactive"

\* C3: after every completed request a room is marked occupied exactly when an
\* active assignment references it
C3_OccupiedIffActive ==
    \A r \in RoomIds : is_occupied[r] <=> ActiveInRoom(room_assignments, r) >= 1

\* a room that stays occupied after one of its two users has left, and a room
\* that is free again after its only user has left
C3_Witness ==
    /\ \E r \in RoomIds :
           /\ is_occupied[r] /\ ActiveInRoom(room_assignments, r) = 1
           /\ \E x \in BagToSet(room_assignments) : x.room_id = r /\ x.status = "inactive"
    /\ \E r \in RoomIds :
           /\ ~is_occupied[r]
           /\ \E x \in BagToSet(room_assignments) : x.room_id = r /\ x.status = "inactive"

(***************************************************************************)
(* SpecAlloc: the allocation service applied to every list of users and    *)
(* rooms within the bounds, followed by the persistence of its result into *)
(* empty tables (the step of allocate_rooms after the service call), by a  *)
(* persistence that fails at one of its statements, and by a second        *)
(* application of _store_allocations to the same list.                     *)
(***************************************************************************)
\* the id of the row at position i of a list of n rows: ids are distinct and
\* are not the positions
IdAt(i, n) == n + 1 - i

UserLists ==
    UNION {{List([i \in 1..n |-> UserRow(IdAt(i, n), ps[i])]) :
               ps \in [1..n -> 1..Len(Profiles)]} : n \in 0..MaxUsers}

RoomLists ==
    UNION {{List([j \in 1..n |-> RoomRow(IdAt(j, n), ks[j])]) :
               ks \in [1..n -> 1..Len(RoomKinds)]} : n \in 0..MaxRooms}

InitialDB == [ra |-> EmptyBag, occ |-> [r \in RoomIds |-> FALSE]]

InitAlloc ==
    /\ users \in UserLists
    /\ rooms \in RoomLists
    /\ room_assignments = EmptyBag
    /\ is_occupied = [r \in RoomIds |-> FALSE]
    /\ strategy \in StrategyNames
    /\ response = NoResponse
    /\ phase = "start"
    /\ pc = Idle
    /\ req = NoReq
    /\ MLUnused

\* result = await room_allocation_service.allocate_rooms(users_list, rooms_list, strategy)
Allocate ==
    /\ phase = "start"
    /\ response' = ServiceAllocateRooms(users, rooms, strategy)
    /\ phase' = "allocated"
    /\ UNCHANGED <<mlvars, users, rooms, room_assignments, is_occupied, strategy, pc, req>>

\* if result["success"]: await _store_allocations(result["allocations"], db)
Persist ==
    /\ phase = "allocated"
    /\ LET db == IF response.success THEN StoreAllocations(DB, response.allocations) ELSE DB
       IN  /\ room_assignments' = db.ra
           /\ is_occupied' = db.occ
    /\ phase' = "stored"
    /\ UNCHANGED <<mlvars, users, rooms, strategy, response, pc, req>>

\* the same, when the k-th db.execute of _store_allocations raises: the
\* statements before it have been committed, the exception is logged and re-raised
PersistFails ==
    /\ phase = "allocated"
    /\ response.success
    /\ \E k \in 1..Len(StoreStatements(response.allocations)) :
           LET db == ExecutePrefix(DB, StoreStatements(response.allocations), k - 1)
           IN  /\ room_assignments' = db.ra
               /\ is_occupied' = db.occ
    /\ phase' = "failed"
    /\ UNCHANGED <<mlvars, users, rooms, strategy, response, pc, req>>

\* _store_allocations applied once more to the list already stored
Reapply ==
    /\ phase = "stored"
    /\ response.success
    /\ LET db == StoreAllocations(DB, response.allocations)
       IN  /\ room_assignments' = db.ra
           /\ is_occupied' = db.occ
    /\ phase' = "reapplied"
    /\ UNCHANGED <<mlvars, users, rooms, strategy, response, pc, req>>

NextAlloc == Allocate \/ Persist \/ PersistFails \/ Reapply

SpecAlloc == InitAlloc /\ [][NextAlloc]_vars

Returned == phase # "start"

\* the records of the allocation list out that are assigned to room r
AssignedTo(out, r) == {k \in 1..Len(out) : out[k].assigned /\ out[k].room_id = r}

\* the records of the allocation list out for user u
RecordsOf(out, u) == {k \in 1..Len(out) : out[k].user_id = u}

\* C5 (as claimed): a persistence that fails part-way leaves none of the batch's
\* assignment rows and occupancy updates behind
C5_FailedBatchLeavesNothing ==
    phase = "failed" =>
        /\ room_assignments = InitialDB.ra
        /\ is_occupied = InitialDB.occ

C7_CompatibilityWithinCapacity ==
    (Returned /\ strategy = "compatibility_first" /\ response.success
        /\ \A j \in 1..Len(rooms) : rooms[j].capacity >= 1) =>
        \A j \in 1..Len(rooms) :
            Cardinality(AssignedTo(response.allocations, rooms[j].id)) <= rooms[j].capacity

C7_Witness ==
    /\ Returned /\ strategy = "compatibility_first" /\ response.success
    /\ \E j \in 1..Len(rooms) :
           /\ rooms[j].capacity = 2
           /\ Cardinality(AssignedTo(response.allocations, rooms[j].id)) = 2
    /\ \E k \in 1..Len(response.allocations) : ~response.allocations[k].assigned

\* one record per input user, assigned with a room of the list or unassigned
\* with a reason
OneRecordPerUser(out) ==
    /\ Len(out) = Len(users)
    /\ \A i \in 1..Len(users) : Cardinality(RecordsOf(out, users[i].id)) = 1
    /\ \A k \in 1..Len(out) :
           \/ out[k].assigned /\ out[k].room_id \in RoomIds
           \/ ~out[k].assigned /\ out[k].room_id = NoRoom
                               /\ out[k].reason \in {"no_rooms_available", "budget_too_low"}

\* C8 (as claimed): for each of the four strategies, every non-empty list of
\* users and every list of rooms, the empty one included, allocate succeeds
\* with exactly one record per input user
C8_OneRecordPerUser ==
    (Returned /\ strategy \in Strategies /\ users # <<>>) =>
        /\ response.success
        /\ OneRecordPerUser(response.allocations)

\* C9 (as claimed): with an unrecognized strategy name allocate fails with the
\* unknown-strategy outcome for all lists, the empty ones included, returns no
\* allocations, and nothing is persisted
C9_UnknownStrategyAlways ==
    (Returned /\ strategy \notin Strategies) =>
        /\ ~response.success
        /\ response.message = "Unknown allocation strategy"
        /\ response.allocations = <<>>
        /\ DB = InitialDB

\* C9 (amended): with an unrecognized strategy name allocate fails, returns no
\* allocations and nothing is persisted; the failure is the unknown-strategy
\* outcome when both lists are non-empty, and the no-users (first) or no-rooms
\* outcome when a list is empty
C9_UnknownStrategyFails ==
    (Returned /\ strategy \notin Strategies) =>
        /\ ~response.success
        /\ response.allocations = <<>>
        /\ DB = InitialDB
        /\ response.message =
               IF users = <<>> THEN "No users to allocate"
               ELSE IF rooms = <<>> THEN "No rooms available"
               ELSE "Unknown allocation strategy"

C9_Witness ==
    /\ phase = "stored" /\ strategy \notin Strategies
    /\ users # <<>> /\ rooms # <<>>
    /\ response.message = "Unknown allocation strategy"

\* the users whose parsed budget is below the price of every room of the list
BelowEveryPrice(u) ==
    \A j \in 1..Len(rooms) : ExtractBudgetValue(u.budget_range) < rooms[j].monthly_rent

BudgetTooLow(out, u) ==
    /\ RecordsOf(out, u.id) # {}
    /\ \A k \in RecordsOf(out, u.id) : ~out[k].assigned /\ out[k].reason = "budget_too_low"

\* C10: in budget_first every user whose parsed budget is below the price of
\* every input room ends unassigned with reason budget_too_low (in the result of
\* allocate, and in the result of the strategy on the empty room list, on which
\* allocate returns before the strategy runs)
C10_BudgetTooLow ==
    /\ (Returned /\ strategy = "budget_first" /\ response.success) =>
           \A i \in 1..Len(users) :
               BelowEveryPrice(users[i]) => BudgetTooLow(response.allocations, users[i])
    /\ (Returned /\ strategy = "budget_first" /\ rooms = <<>>) =>
           \A i \in 1..Len(users) : BudgetTooLow(AllocateByBudget(users, rooms), users[i])

C10_Witness ==
    /\ Returned /\ strategy = "budget_first" /\ response.success
    /\ \E i, h \in 1..Len(users) :
           /\ BelowEveryPrice(users[i])
           /\ BudgetTooLow(response.allocations, users[i])
           /\ ~BelowEveryPrice(users[h])
    /\ rooms # <<>>

(***************************************************************************)
(* SpecConc: two allocation requests served by the same event loop.  A     *)
(* handler runs without interruption from one database call to the next    *)
(* (the service is pure computation); each database call is one step, and  *)
(* each db.execute commits on its own.                                     *)
(***************************************************************************)
Procs == {"p1", "p2"}

NewReq(kind, user_id, name, us) ==
    [kind |-> kind, user_id |-> user_id, name |-> name, us |-> us,
     result |-> NoResponse, stmts |-> <<>>, k |-> 1]

InitConc ==
    /\ users = TableUsers
    /\ rooms = TableRooms
    /\ room_assignments = EmptyBag
    /\ is_occupied = [r \in RoomIds |-> FALSE]
    /\ strategy = "none"
    /\ response = NoResponse
    /\ phase = "interleaved"
    /\ pc = [p \in Procs |-> "start"]
    /\ req = [p \in Procs |-> NewReq("none", NoRoom, "none", <<>>)]
    /\ MLUnused

\* allocate_rooms: users = await db.fetch(... WHERE ra.id IS NULL)
FetchUnassignedUsers(p) ==
    /\ pc[p] = "start"
    /\ \E name \in Strategies :
       \E us \in FetchOrders(users, LAMBDA u : Unassigned(room_assignments, u)) :
           req' = [req EXCEPT ![p] = NewReq("all", NoRoom, name, us)]
    /\ pc' = [pc EXCEPT ![p] = "fetch_rooms"]
    /\ UNCHANGED <<mlvars, users, rooms, room_assignments, is_occupied, strategy, response, phase>>

\* allocate_single_user: existing_assignment = await db.fetchrow(...)
FetchExistingAssignment(p) ==
    /\ pc[p] = "start"
    /\ \E user_id \in UserIds, name \in Strategies :
           IF ActiveOfUser(room_assignments, user_id) # {}
           THEN /\ req' = [req EXCEPT ![p] =
                              [NewReq("single", user_id, name, <<>>) EXCEPT
                                  !.result = Failure("User already assigned")]]
                /\ pc' = [pc EXCEPT ![p] = "done"]
           ELSE /\ req' = [req EXCEPT ![p] = NewReq("single", user_id, name, <<>>)]
                /\ pc' = [pc EXCEPT ![p] = "fetch_user"]
    /\ UNCHANGED <<mlvars, users, rooms, room_assignments, is_occupied, strategy, response, phase>>

\* allocate_single_user: user = await db.fetchrow(... FROM users WHERE id = $1)
FetchUser(p) ==
    /\ pc[p] = "fetch_user"
    /\ \E us \in FetchOrders(users, LAMBDA u : u.id = req[p].user_id) :
           req' = [req EXCEPT ![p].us = us]
    /\ pc' = [pc EXCEPT ![p] = "fetch_rooms"]
    /\ UNCHANGED <<mlvars, users, rooms, room_assignments, is_occupied, strategy, response, phase>>

\* rooms = await db.fetch(... WHERE is_occupied = FALSE), then the handler up to
\* the first db.execute of _store_allocations
FetchRooms(p) ==
    /\ pc[p] = "fetch_rooms"
    /\ \E rs \in FetchOrders(rooms, LAMBDA r : Available(is_occupied, r)) :
       \E h \in {IF req[p].kind = "all"
                  THEN HandleAllocateRooms(DB, req[p].us, rs, req[p].name)
                  ELSE HandleAllocateSingleUser(DB, req[p].us, rs, req[p].name)} :
       \E stmts \in {IF h.response.success
                      THEN StoreStatements(h.response.allocations) ELSE <<>>} :
           /\ req' = [req EXCEPT ![p].result = h.response, ![p].stmts = stmts]
           /\ pc' = [pc EXCEPT ![p] = IF stmts = <<>> THEN "done" ELSE "store"]
    /\ UNCHANGED <<mlvars, users, rooms, room_assignments, is_occupied, strategy, response, phase>>

\* one await db.execute(...) of _store_allocations
StoreStep(p) ==
    /\ pc[p] = "store"
    /\ LET db == Execute(DB, req[p].stmts[req[p].k])
       IN  /\ room_assignments' = db.ra
           /\ is_occupied' = db.occ
    /\ req' = [req EXCEPT ![p].k = @ + 1]
    /\ pc' = [pc EXCEPT ![p] = IF req[p].k = Len(req[p].stmts) THEN "done" ELSE "store"]
    /\ UNCHANGED <<mlvars, users, rooms, strategy, response, phase>>

NextConc ==
    \E p \in Procs :
        \/ FetchUnassignedUsers(p)
        \/ FetchExistingAssignment(p)
        \/ FetchUser(p)
        \/ FetchRooms(p)
        \/ StoreStep(p)

SpecConc == InitConc /\ [][NextConc]_vars

\* C4 (as claimed): under every interleaving of two allocation requests no user
\* has two active assignments
C4_NoDoubleAssignment ==
    \A u \in UserIds : ActiveCountOfUser(room_assignments, u) < 2

(***************************************************************************)
(* SpecBudget: the budget parser applied to budget texts put together from *)
(* a prefix, a body and a suffix, to the texts of the sample data and to   *)
(* None.                                                                   *)
(***************************************************************************)
\* the allocation tables take no part in this specification
AllocUnused ==
    /\ users = <<>>
    /\ rooms = <<>>
    /\ room_assignments = EmptyBag
    /\ is_occupied = <<>>
    /\ strategy = "none"
    /\ response = NoResponse
    /\ pc = Idle
    /\ req = NoReq

BudgetPrefixes ==
    {<<>>,
     <<"U","n","d","e","r"," ">>,
     <<"$">>,
     <<"O","v","e","r"," ">>,
     <<"a","b","o","u","t"," ">>}

BudgetBodies ==
    {<<"5","0","0","-","7","5","0">>,
     <<"5","0","0","-","8","0","0">>,
     <<"7","5","0","-","1",",","0","0","0">>,
     <<"8","0","0","-","1","0","0","0">>,
     <<"1",",","0","0","0","-","1",",","5","0","0">>,
     <<"1","5","0","0","+">>,
     <<"1",",","2","0","0">>,
     <<"7","7">>,
     <<>>,
     <<"1","2","a","3","4">>}

BudgetSuffixes ==
    {<<>>,
     <<" ","p","e","r"," ","m","o","n","t","h">>,
     <<"+">>}

S_under500lc == <<"u","n","d","e","r"," ","$","5","0","0">>
S_1500plain  == <<"$","1","5","0","0","+">>

BudgetTexts ==
    {p \o b \o s : p \in BudgetPrefixes, b \in BudgetBodies, s \in BudgetSuffixes}
        \cup {S_under500, S_1500plus, S_text77, S_800_1000, S_under500lc, S_1500plain, NoneVal}

InitBudget ==
    /\ AllocUnused
    /\ input \in BudgetTexts
    /\ output = "none"
    /\ ml_service = "none"
    /\ model_files = "none"
    /\ clock = 0
    /\ compatibility_scores = {}
    /\ phase = "start"

\* user_budget = self._extract_budget_value(user.get('budget_range', ''))
ExtractBudget ==
    /\ phase = "start"
    /\ output' = ExtractBudgetValue(input)
    /\ phase' = "parsed"
    /\ UNCHANGED <<allocvars, input, ml_service, model_files, clock, compatibility_scores>>

NextBudget == ExtractBudget

SpecBudget == InitBudget /\ [][NextBudget]_vars

\* the text after lower-casing and removing '$' and ','
BudgetNormalForm(text) ==
    SelectSeq(ToLower(text), LAMBDA c : c \notin {"$", ","})

\* the value that the fixed table gives, its rows tried in order
BudgetTableValue(text) ==
    IF text = NoneVal THEN 1000
    ELSE LET t   == BudgetNormalForm(text)
             has(x) == Contains(t, x)
             rows == << <<has(T_under), 500>>,
                        <<has(T_500_750) \/ has(T_500_800), 625>>,
                        <<has(T_750_1000) \/ has(T_800_1000), 875>>,
                        <<has(T_1000_1500), 1250>>,
                        <<has(T_1500plus) \/ has(T_over), 2000>>,
                        <<FirstNumber(t) # <<>>, DigitsToInt(FirstNumber(t))>>,
                        <<TRUE, 1000>> >>
             first == CHOOSE i \in 1..Len(rows) : rows[i][1] /\ \A j \in 1..(i - 1) : ~rows[j][1]
         IN  rows[first][2]

\* C11: the budget parser maps every budget text to the value of the fixed
\* table, tried in the order under, 500-750/500-800, 750-1000/800-1000,
\* 1000-1500, 1500+/over, first embedded number, 1000; in particular
\* 'under $500' gives 500, '$1500+' gives 2000, 'random text 77' gives 77, and
\* a text without a number or an absent value gives 1000
C11_BudgetTable ==
    phase = "parsed" =>
        /\ output = BudgetTableValue(input)
        /\ input = S_under500lc => output = 500
        /\ input = S_1500plain => output = 2000
        /\ input = S_text77 => output = 77
        /\ input \in {NoneVal, <<"a","b","o","u","t"," ">>, <<"a","b","o","u","t"," "," ","p","e","r"," ","m","o","n","t","h">>} => output = 1000

C11_Witness ==
    /\ phase = "parsed"
    /\ input = <<"$","1",",","0","0","0","-","1",",","5","0","0"," ","p","e","r"," ","m","o","n","t","h">>
    /\ output = 1250

(***************************************************************************)
(* The match scorer (backend/app/api/matching.py).  Sub-scores are kept in *)
(* ten-thousandths, the values that round(x, 4) returns; the values that   *)
(* the models and the similarity function return are in                    *)
(* hundred-thousandths.  The rule-based score is the float that the        *)
(* running sum of 0.1 and 0.05 produces: <<h, e>> is the e-th double above *)
(* the double nearest to h/100.                                            *)
(***************************************************************************)
\* [0.0] * 384: the default embedding size
EmbeddingDim == 384

\* the length of _create_feature_vector(user): embedding, age, four encodings
FeatureLen(user) ==
    (IF user.embedding_len > 0 THEN user.embedding_len ELSE EmbeddingDim) + 1 + 4

\* the length of _create_combined_feature_vector(user1, user2), or 0 when
\* np.abs(user1_features - user2_features) cannot be formed
CombinedFeatureLen(user1, user2) ==
    IF FeatureLen(user1) = FeatureLen(user2) THEN 3 * FeatureLen(user1) ELSE 0

Max(a, b) == IF a >= b THEN a ELSE b

Min(a, b) == IF a <= b THEN a ELSE b

\* num / den rounded to the nearest integer; tie (0 or 1) is added when num / den
\* lies half-way, where the float at hand decides
RoundDiv(num, den, tie) ==
    LET q == num \div den
        r == num % den
    IN  IF 2 * r > den THEN q + 1
        ELSE IF 2 * r < den THEN q
        ELSE q + tie

\* round(x, 4) of a value in hundred-thousandths
Round4(x, tie) == RoundDiv(x, 10, tie)

\* matching.py _cleanliness_to_number
MatchCleanlinessToNumber(level) ==
    CASE level = "very_clean" -> 4
      [] level = "clean" -> 3
      [] level = "moderate" -> 2
      [] level = "relaxed" -> 1
      [] level = "very_relaxed" -> 0
      [] OTHER -> 2

\* matching.py _noise_to_number
MatchNoiseToNumber(level) ==
    CASE level = "very_quiet" -> 0
      [] level = "quiet" -> 1
      [] level = "moderate" -> 2
      [] level = "tolerant" -> 3
      [] level = "very_tolerant" -> 4
      [] OTHER -> 2

\* matching.py _social_to_number
SocialToNumber(level) ==
    CASE level = "very_private" -> 0
      [] level = "private" -> 1
      [] level = "moderate" -> 2
      [] level = "social" -> 3
      [] level = "very_social" -> 4
      [] OTHER -> 2

\* the float additions score += 0.1 and score += 0.05 from 0.5 on:
\* <<h, e, inc, e2>> says that <<h, e>> plus inc/100 is <<h + inc, e2>>
RuleSums ==
    { <<50, 0, 5, 0>>, <<50, 0, 10, 0>>, <<55, 0, 5, 1>>, <<55, 0, 10, 0>>, <<60, 0, 5, 0>>,
      <<60, 0, 10, 0>>, <<60, 1, 5, 1>>, <<60, 1, 10, 1>>, <<65, 0, 5, 1>>, <<65, 0, 10, 0>>,
      <<65, 1, 5, 2>>, <<65, 1, 10, 1>>, <<70, 0, 5, 0>>, <<70, 0, 10, -1>>, <<70, 1, 5, 1>>,
      <<70, 1, 10, 0>>, <<70, 2, 5, 2>>, <<70, 2, 10, 1>>, <<75, 0, 5, 0>>, <<75, 0, 10, 0>>,
      <<75, 1, 5, 1>>, <<75, 1, 10, 1>>, <<75, 2, 5, 2>>, <<75, 2, 10, 2>>, <<80, -1, 5, 0>>,
      <<80, -1, 10, -1>>, <<80, 0, 5, 1>>, <<80, 0, 10, 0>>, <<80, 1, 5, 2>>, <<80, 1, 10, 1>>,
      <<80, 2, 5, 3>>, <<80, 2, 10, 2>>, <<85, 0, 5, 0>>, <<85, 0, 10, 0>>, <<85, 1, 5, 1>>,
      <<85, 1, 10, 1>>, <<85, 2, 5, 2>>, <<85, 2, 10, 2>>, <<85, 3, 5, 3>>, <<85, 3, 10, 3>>,
      <<90, -1, 5, 0>>, <<90, -1, 10, -1>>, <<90, 0, 5, 1>>, <<90, 0, 10, 0>>, <<90, 1, 5, 2>>,
      <<90, 1, 10, 1>>, <<90, 2, 5, 3>>, <<90, 2, 10, 1>>, <<90, 3, 5, 4>>, <<90, 3, 10, 2>>,
      <<95, 0, 5, 0>>, <<95, 0, 10, 0>>, <<95, 1, 5, 0>>, <<95, 1, 10, 0>>, <<95, 2, 5, 1>>,
      <<95, 2, 10, 1>>, <<95, 3, 5, 1>>, <<95, 3, 10, 1>>, <<95, 4, 5, 2>>, <<95, 4, 10, 2>>,
      <<100, -1, 5, -1>>, <<100, -1, 10, -1>>, <<100, 0, 5, 0>>, <<100, 0, 10, 0>>, <<100, 1, 5, 1>>,
      <<100, 1, 10, 1>>, <<100, 2, 5, 2>>, <<100, 2, 10, 2>>, <<105, -1, 5, -1>>, <<105, 0, 5, 0>>,
      <<105, 1, 5, 1>>, <<105, 2, 5, 2>> }

\* score += inc/100
FloatAdd(score, inc) ==
    IF inc = 0 THEN score
    ELSE LET t == CHOOSE t \in RuleSums : t[1] = score[1] /\ t[2] = score[2] /\ t[3] = inc
         IN  <<score[1] + inc, t[4]>>

\* min(score, 1.0)
FloatMinOne(score) ==
    IF score[1] > 100 \/ (score[1] = 100 /\ score[2] > 0) THEN <<100, 0>> ELSE score

\* the rule-based score without the clamp
RuleBasedScore_Unclamped(user1, user2) ==
    LET sleep == IF user1.sleep_schedule = user2.sleep_schedule THEN 10
                 ELSE IF user1.sleep_schedule = "flexible" \/ user2.sleep_schedule = "flexible"
                 THEN 5 ELSE 0
        clean == IF user1.cleanliness_level = user2.cleanliness_level THEN 10
                 ELSE IF Abs(MatchCleanlinessToNumber(user1.cleanliness_level)
                             - MatchCleanlinessToNumber(user2.cleanliness_level)) <= 1
                 THEN 5 ELSE 0
        noise == IF user1.noise_tolerance = user2.noise_tolerance THEN 10
                 ELSE IF Abs(MatchNoiseToNumber(user1.noise_tolerance)
                             - MatchNoiseToNumber(user2.noise_tolerance)) <= 1
                 THEN 5 ELSE 0
        social == IF user1.social_preference = user2.social_preference THEN 10
                  ELSE IF Abs(SocialToNumber(user1.social_preference)
                              - SocialToNumber(user2.social_preference)) <= 1
                  THEN 5 ELSE 0
        pet == IF user1.pet_preference = user2.pet_preference THEN 10 ELSE 0
        smoking == IF user1.smoking_preference = user2.smoking_preference THEN 10 ELSE 0
    IN  FloatAdd(FloatAdd(FloatAdd(FloatAdd(FloatAdd(FloatAdd(
            <<50, 0>>, sleep), clean), noise), social), pet), smoking)

\* matching.py _calculate_rule_based_score
RuleBasedScore(user1, user2) == FloatMinOne(RuleBasedScore_Unclamped(user1, user2))

\* round(rule_score, 4), in ten-thousandths
RoundRule(score) == score[1] * 100

\* ml_service: a model is 0 (None), the number of the training run that fitted
\* it, or the negated number of the run that created it and failed to fit it;
\* the scaler is a StandardScaler fitted to vectors of length n_features
\* (0: not fitted) by training run gen (0: created by __init__)
NoModel == 0

\* a call on an estimator whose fit failed raises NotFittedError
NotFitted(model) == model < 0

FreshScaler == [n_features |-> 0, gen |-> 0]

\* ml_service.scaler.transform([features]) raises when the scaler is not
\* fitted or was fitted to vectors of another length
TransformRaises(scaler, len) == scaler.n_features # len

\* calculate_similarity(embedding1, embedding2) of the embedding service: the
\* cosine similarity of the two embeddings
CalculateSimilarity(pair) == pair.sim

\* matching.py _calculate_knn_score, in hundred-thousandths
KnnScore(pair, ml) ==
    IF \/ TransformRaises(ml.scaler, FeatureLen(pair.user1))
       \/ TransformRaises(ml.scaler, FeatureLen(pair.user2))
       \/ NotFitted(ml.knn_model)
       \/ pair.knn.raises
    THEN 0
    ELSE IF \E i \in 1..Len(pair.knn.indices) : pair.knn.indices[i] = pair.user2.id
    THEN LET distance_idx == CHOOSE i \in 1..Len(pair.knn.indices) :
                                 /\ pair.knn.indices[i] = pair.user2.id
                                 /\ \A j \in 1..(i - 1) : pair.knn.indices[j] # pair.user2.id
         IN  Max(0, 100000 - pair.knn.distances[distance_idx])
    ELSE 0

\* matching.py _calculate_svd_score, in hundred-thousandths (max(0, nan) is 0)
SvdScore(pair, ml) ==
    IF \/ TransformRaises(ml.scaler, FeatureLen(pair.user1))
       \/ TransformRaises(ml.scaler, FeatureLen(pair.user2))
       \/ NotFitted(ml.svd_model)
       \/ pair.svd.raises
    THEN 0
    ELSE IF pair.svd.nan THEN 0
    ELSE Max(0, pair.svd.value)

\* matching.py _calculate_logistic_score, in hundred-thousandths
LogisticScore(pair, ml) ==
    IF \/ CombinedFeatureLen(pair.user1, pair.user2) = 0
       \/ TransformRaises(ml.scaler, CombinedFeatureLen(pair.user1, pair.user2))
       \/ NotFitted(ml.logistic_model)
    THEN 0
    ELSE pair.prob

\* the weights of _calculate_final_score, in hundredths, in dict order
Weights ==
    << [name |-> "embedding_similarity", weight |-> 30],
       [name |-> "knn_score", weight |-> 20],
       [name |-> "svd_score", weight |-> 15],
       [name |-> "logistic_score", weight |-> 20],
       [name |-> "rule_based_score", weight |-> 15] >>

\* the sums of the loop of _calculate_final_score over the first k weights:
\* <<final_score, total_weight>>
RECURSIVE FinalSums(_, _)
FinalSums(scores, k) ==
    IF k = 0 THEN <<0, 0>>
    ELSE LET rest == FinalSums(scores, k - 1)
         IN  IF Weights[k].name \in DOMAIN scores
             THEN <<rest[1] + scores[Weights[k].name] * Weights[k].weight,
                    rest[2] + Weights[k].weight>>
             ELSE rest

\* the denominator counting only the sub-scores whose model is loaded
FinalScore_LoadedOnly(scores, ml, tie) ==
    LET w == 30 + 15 + (IF ml.knn_model # NoModel THEN 20 ELSE 0)
                     + (IF ml.svd_model # NoModel THEN 15 ELSE 0)
                     + (IF ml.logistic_model # NoModel THEN 20 ELSE 0)
    IN  RoundDiv(FinalSums(scores, Len(Weights))[1], w, tie)

\* round(_calculate_final_score(scores), 4), in ten-thousandths
FinalScore(scores, ml, tie) ==
    LET sums == FinalSums(scores, Len(Weights))
    IN  IF sums[2] > 0 THEN RoundDiv(sums[1], sums[2], tie) ELSE 0

\* the scores returned by the except clause of _calculate_match_score
ZeroScores ==
    [embedding_similarity |-> 0, knn_score |-> 0, svd_score |-> 0,
     logistic_score |-> 0, rule_based_score |-> 0, final_score |-> 0]

\* the sub-scores of _calculate_match_score, in ten-thousandths
SubScores(pair, ml, tie) ==
    [embedding_similarity |->
         IF pair.user1.embedding_len > 0 /\ pair.user2.embedding_len > 0
         THEN Round4(CalculateSimilarity(pair).value, tie) ELSE 0,
     knn_score |-> IF ml.knn_model # NoModel THEN Round4(KnnScore(pair, ml), tie) ELSE 0,
     svd_score |-> IF ml.svd_model # NoModel THEN Round4(SvdScore(pair, ml), tie) ELSE 0,
     logistic_score |->
         IF ml.logistic_model # NoModel THEN Round4(LogisticScore(pair, ml), tie) ELSE 0,
     rule_based_score |-> RoundRule(RuleBasedScore(pair.user1, pair.user2))]

\* an exception that reaches the except clause of _calculate_match_score
MatchScoreRaises(pair) ==
    /\ pair.user1.embedding_len > 0 /\ pair.user2.embedding_len > 0
    /\ CalculateSimilarity(pair).raises

\* the scores when a failure zeroes only the sub-score it occurs in
DegradedScores(pair, ml, tie) ==
    CHOOSE r \in {[embedding_similarity |-> s.embedding_similarity,
                   knn_score |-> s.knn_score, svd_score |-> s.svd_score,
                   logistic_score |-> s.logistic_score,
                   rule_based_score |-> s.rule_based_score,
                   final_score |-> FinalScore(s, ml, tie)] :
                      s \in {SubScores(pair, ml, tie)}} : TRUE

\* matching.py _calculate_match_score
MatchScore(pair, ml, tie) ==
    IF MatchScoreRaises(pair) THEN ZeroScores
    ELSE CHOOSE r \in {[embedding_similarity |-> s.embedding_similarity,
                        knn_score |-> s.knn_score, svd_score |-> s.svd_score,
                        logistic_score |-> s.logistic_score,
                        rule_based_score |-> s.rule_based_score,
                        final_score |-> FinalScore(s, ml, tie)] :
                           s \in {SubScores(pair, ml, tie)}} : TRUE

(***************************************************************************)
(* The match scorer: _calculate_match_score for one pair of user records   *)
(* and _get_comprehensive_matches for a user and the other users that the  *)
(* store returns.                                                          *)
(***************************************************************************)
MaxCandidates == 3

\* survey answers of the sample users
MatchProfile(sleep, clean, noise, social, pet, smoking) ==
    [sleep_schedule |-> sleep, cleanliness_level |-> clean,
     noise_tolerance |-> noise, social_preference |-> social,
     pet_preference |-> pet, smoking_preference |-> smoking]

MatchProfiles ==
    << MatchProfile("early_bird", "clean", "quiet", "social", "no_pets", "non_smoker"),
       MatchProfile("early_bird", "clean", "quiet", "social", "no_pets", "smoker"),
       MatchProfile("flexible", "moderate", "moderate", "moderate", "no_pets", "non_smoker"),
       MatchProfile("night_owl", "relaxed", "noisy", "introvert", "have_pets", "smoker"),
       MatchProfile("early_bird", "clean", "quiet", "social", "love_pets", "non_smoker"),
       MatchProfile("flexible", "clean", "quiet", "social", "no_pets", "non_smoker") >>

\* a row of the users table as the scorer reads it
MatchUser(id, profile, embedding_len) ==
    [id |-> id, embedding_len |-> embedding_len,
     sleep_schedule |-> profile.sleep_schedule,
     cleanliness_level |-> profile.cleanliness_level,
     noise_tolerance |-> profile.noise_tolerance,
     social_preference |-> profile.social_preference,
     pet_preference |-> profile.pet_preference,
     smoking_preference |-> profile.smoking_preference]

\* what calculate_similarity does: raises, or returns a cosine in
\* hundred-thousandths
SimilarityOutcomes ==
    {[raises |-> TRUE, value |-> 0]}
    \cup {[raises |-> FALSE, value |-> v] : v \in {-100000, 25004, 100000}}

\* what knn_model.kneighbors does: raises, or returns the positions and the
\* cosine distances (hundred-thousandths) of the five nearest rows
KnnOutcomes ==
    {[raises |-> TRUE, indices |-> <<>>, distances |-> <<>>],
     [raises |-> FALSE, indices |-> <<0, 2, 3, 5, 7>>,
      distances |-> <<0, 12346, 40000, 100000, 150002>>],
     [raises |-> FALSE, indices |-> <<0, 4, 5, 3, 2>>,
      distances |-> <<0, 12346, 40000, 100000, 150002>>]}

\* what svd_model.transform and the cosine of the reduced vectors give:
\* raises, nan (a zero norm), or a cosine in hundred-thousandths
SvdOutcomes ==
    {[raises |-> TRUE, nan |-> FALSE, value |-> 0],
     [raises |-> FALSE, nan |-> TRUE, value |-> 0],
     [raises |-> FALSE, nan |-> FALSE, value |-> -45006],
     [raises |-> FALSE, nan |-> FALSE, value |-> 63330]}

\* what logistic_model.predict_proba gives for the pair, in hundred-thousandths
ProbOutcomes == {73001}

\* a pair of user records with what the embedding service and the models
\* answer for it
PairCases ==
    {[user1 |-> MatchUser(1, MatchProfiles[1], e1),
      user2 |-> MatchUser(id2, MatchProfiles[p2], e2),
      sim |-> sim, knn |-> knn, svd |-> svd, prob |-> prob] :
         e1 \in {0, EmbeddingDim}, id2 \in {2, 5}, p2 \in 1..Len(MatchProfiles),
         e2 \in {0, EmbeddingDim}, sim \in SimilarityOutcomes, knn \in KnnOutcomes,
         svd \in SvdOutcomes, prob \in ProbOutcomes}

\* the states that ml_service can be in: no model (the trained flag set by a
\* load that found no file of its bundle), or what training run 1 leaves, with
\* the scaler that the run fitted to the 389 features of a user
MLStates ==
    {[knn_model |-> NoModel, svd_model |-> NoModel, logistic_model |-> NoModel,
      scaler |-> FreshScaler, models_trained |-> t] : t \in BOOLEAN}
    \cup {[knn_model |-> k, svd_model |-> s, logistic_model |-> l,
           scaler |-> [n_features |-> EmbeddingDim + 1 + 4, gen |-> 1],
           models_trained |-> TRUE] : k \in {1, -1}, s \in {1, -1}, l \in {NoModel, 1, -1}}

\* the candidates that the store can return for user 1
RankCases ==
    {[user1 |-> MatchUser(1, MatchProfiles[1], EmbeddingDim),
      user2 |-> MatchUser(c[1], MatchProfiles[c[2]], EmbeddingDim),
      sim |-> [raises |-> FALSE, value |-> c[3]],
      knn |-> [raises |-> FALSE, indices |-> <<0, 2, 3, 5, 7>>,
               distances |-> <<0, 12346, 40000, 100000, 150002>>],
      svd |-> [raises |-> FALSE, nan |-> FALSE, value |-> 63330],
      prob |-> 73001] :
         c \in {<<2, 1, 25004>>, <<3, 2, 25004>>, <<4, 4, -33333>>, <<5, 3, 100000>>}}

\* db.fetch of the other users: any of them, in any order
OtherUsers ==
    UNION {{List(s) : s \in {f \in [1..n -> RankCases] :
                                \A i, j \in 1..n : i # j => f[i].user2.id # f[j].user2.id}} :
              n \in 0..MaxCandidates}

Limits == {-1, 0, 1, 2, 3, 5}

\* matches[:limit]
SliceTo(matches, limit) ==
    IF limit >= 0 THEN SubSeq(matches, 1, Min(limit, Len(matches)))
    ELSE SubSeq(matches, 1, Max(0, Len(matches) + limit))

\* the list matches that the loop of _get_comprehensive_matches builds
ScoredMatches(other_users, ml, tie) ==
    List([i \in 1..Len(other_users) |->
            CHOOSE m \in {[user_id |-> other_users[i].user2.id, scores |-> s,
                           final_score |-> s.final_score] :
                              s \in {MatchScore(other_users[i], ml, tie)}} : TRUE])

\* matches.sort(key=lambda x: x['final_score'], reverse=True)
SortMatches(matches) ==
    StableSortDesc(matches, [i \in 1..Len(matches) |-> matches[i].final_score])

\* the list sorted by ascending final_score
ComprehensiveMatches_Ascending(other_users, limit, ml, tie) ==
    CHOOSE r \in {[matches |-> m, result |-> SliceTo(m, limit)] :
                     m \in {StableSortAsc(sm, [i \in 1..Len(sm) |-> sm[i].final_score]) :
                               sm \in {ScoredMatches(other_users, ml, tie)}}} : TRUE

\* matching.py _get_comprehensive_matches: the list matches after the sort and
\* the list returned
ComprehensiveMatches(other_users, limit, ml, tie) ==
    CHOOSE r \in {[matches |-> m, result |-> SliceTo(m, limit)] :
                     m \in {SortMatches(sm) :
                               sm \in {ScoredMatches(other_users, ml, tie)}}} : TRUE

InitMatch ==
    /\ AllocUnused
    /\ \/ input \in {[kind |-> "pair", pair |-> c] : c \in PairCases}
       \/ input \in {[kind |-> "rank", other_users |-> o, limit |-> l] :
                        o \in OtherUsers, l \in Limits}
    /\ ml_service \in MLStates
    /\ input.kind = "rank" => ml_service.models_trained
    /\ output = "none"
    /\ model_files = "none"
    /\ clock = 0
    /\ compatibility_scores = {}
    /\ phase = "start"

\* scores = await _calculate_match_score(user1, user2); rule_score is the value
\* of _calculate_rule_based_score(user1, user2)
ScorePair ==
    /\ phase = "start"
    /\ input.kind = "pair"
    /\ \E tie \in {0, 1} :
         output' = [scores |-> MatchScore(input.pair, ml_service, tie),
                    rule_score |-> RuleBasedScore(input.pair.user1, input.pair.user2)]
    /\ phase' = "scored"
    /\ UNCHANGED <<allocvars, input, ml_service, model_files, clock, compatibility_scores>>

\* matches = await _get_comprehensive_matches(user, limit, db)
GetComprehensiveMatches ==
    /\ phase = "start"
    /\ input.kind = "rank"
    /\ \E tie \in {0, 1} :
         \E r \in {ComprehensiveMatches(input.other_users, input.limit, ml_service, tie)} :
            output' = [matches |-> r.matches, result |-> r.result]
    /\ phase' = "ranked"
    /\ UNCHANGED <<allocvars, input, ml_service, model_files, clock, compatibility_scores>>

NextMatch == ScorePair \/ GetComprehensiveMatches

SpecMatch == InitMatch /\ [][NextMatch]_vars

\* no neighbor index, no reducer and no classifier is loaded
OnlyEmbeddingAndRule ==
    /\ ml_service.knn_model = NoModel
    /\ ml_service.svd_model = NoModel
    /\ ml_service.logistic_model = NoModel

\* C12 (as claimed): when the neighbor index, the reducer and the classifier are
\* not loaded, final_score is (0.30 * embedding_similarity + 0.15 *
\* rule_based_score) / (0.30 + 0.15), the weights of the unloaded models being
\* left out of the denominator
C12_NormalisedByAvailableWeights ==
    (phase = "scored" /\ OnlyEmbeddingAndRule /\ ~MatchScoreRaises(input.pair)) =>
        \E tie \in {0, 1} :
            output.scores.final_score = FinalScore_LoadedOnly(output.scores, ml_service, tie)

\* C13 (as claimed): every sub-score and final_score that _calculate_match_score
\* returns lies in [0, 1], for every pair, every combination of loaded models
\* and on the failure paths
C13_ScoresInUnitInterval ==
    phase = "scored" =>
        \A k \in DOMAIN output.scores :
            output.scores[k] >= 0 /\ output.scores[k] <= 10000

\* the elements of a sequence
Elements(seq) == {seq[i] : i \in 1..Len(seq)}

\* C14: for limit >= 0 the list returned by _get_comprehensive_matches has
\* min(limit, number of candidates) entries, each the scored record of a
\* different candidate, is non-increasing in final_score, and no candidate left
\* out has a final_score above that of a returned one
C14_RankTopLimit ==
    (phase = "ranked" /\ input.limit >= 0) =>
        \E tie \in {0, 1} :
            LET scored  == Elements(ScoredMatches(input.other_users, ml_service, tie))
                result  == output.result
                leftout == scored \ Elements(result)
            IN  /\ Len(result) = Min(input.limit, Len(input.other_users))
                /\ Elements(result) \subseteq scored
                /\ \A i, j \in 1..Len(result) : i # j => result[i].user_id # result[j].user_id
                /\ \A i \in 1..(Len(result) - 1) :
                       result[i].final_score >= result[i + 1].final_score
                /\ \A c \in leftout : \A r \in Elements(result) :
                       c.final_score <= r.final_score

\* three candidates, the best two of them returned, the third one scoring less
C14_Witness ==
    /\ phase = "ranked"
    /\ input.limit = 2
    /\ Len(input.other_users) = 3
    /\ Len(output.result) = 2
    /\ output.result[1].final_score > output.result[2].final_score
    /\ output.result[2].final_score > output.matches[3].final_score
    /\ input.other_users[1].user2.id = output.matches[3].user_id

\* C15 (as claimed): in the list returned by _get_comprehensive_matches,
\* candidates with equal final_score appear in ascending user-id order,
\* whatever the order in which the store returns the candidates
C15_TiesByAscendingId ==
    phase = "ranked" =>
        \A i, j \in 1..Len(output.result) :
            (i < j /\ output.result[i].final_score = output.result[j].final_score)
                => output.result[i].user_id < output.result[j].user_id

\* the attributes that _calculate_rule_based_score compares
ComparedAttributes ==
    {"sleep_schedule", "cleanliness_level", "noise_tolerance", "social_preference",
     "pet_preference", "smoking_preference"}

\* the compared attributes on which the two users give the same answer
Agreed(user1, user2) == {a \in ComparedAttributes : user1[a] = user2[a]}

KnnFails(pair, ml) ==
    /\ ml.knn_model # NoModel
    /\ \/ TransformRaises(ml.scaler, FeatureLen(pair.user1))
       \/ NotFitted(ml.knn_model)
       \/ pair.knn.raises

SvdFails(pair, ml) ==
    /\ ml.svd_model # NoModel
    /\ \/ TransformRaises(ml.scaler, FeatureLen(pair.user1))
       \/ NotFitted(ml.svd_model)
       \/ pair.svd.raises

LogisticFails(pair, ml) ==
    /\ ml.logistic_model # NoModel
    /\ \/ TransformRaises(ml.scaler, CombinedFeatureLen(pair.user1, pair.user2))
       \/ NotFitted(ml.logistic_model)

\* C17 (as claimed): a failure inside the computation of one sub-score sets
\* that sub-score to 0.0 only; the other sub-scores keep their computed values
\* and final_score is fused from them
C17_FailureIsLocal ==
    (phase = "scored"
        /\ \/ MatchScoreRaises(input.pair)
           \/ KnnFails(input.pair, ml_service)
           \/ SvdFails(input.pair, ml_service)
           \/ LogisticFails(input.pair, ml_service)) =>
        \E tie \in {0, 1} :
            output.scores = DegradedScores(input.pair, ml_service, tie)

(***************************************************************************)
(* The model store of MLService: train_models with _save_models,           *)
(* load_models and get_model_status.  A fitted model is the number of the  *)
(* training run that fitted it, an estimator that was created but whose    *)
(* fit failed is the negated number, a file of the directory models/ is a  *)
(* name (a list of characters) with the pickled object.                    *)
(***************************************************************************)
MaxClock == 2

MinUsers == 10

\* the moments at which training runs start, in the order of time
Times ==
    << [year |-> 2024, month |-> 3, day |-> 9, hour |-> 23, minute |-> 59, second |-> 58],
       [year |-> 2024, month |-> 3, day |-> 10, hour |-> 0, minute |-> 0, second |-> 5],
       [year |-> 2024, month |-> 3, day |-> 10, hour |-> 9, minute |-> 30, second |-> 0],
       [year |-> 2024, month |-> 11, day |-> 2, hour |-> 8, minute |-> 0, second |-> 0] >>

\* %m, %d, %H, %M, %S: two digits
Pad2(n) == IF n < 10 THEN <<"0">> \o IntToStr(n) ELSE IntToStr(n)

\* datetime.now().strftime("%Y%m%d_%H%M%S")
Strftime(now) ==
    IntToStr(now.year) \o Pad2(now.month) \o Pad2(now.day) \o <<"_">>
        \o Pad2(now.hour) \o Pad2(now.minute) \o Pad2(now.second)

S_pkl == <<".","p","k","l">>
S_knn_model == <<"k","n","n","_","m","o","d","e","l","_">>
S_svd_model == <<"s","v","d","_","m","o","d","e","l","_">>
S_logistic_model == <<"l","o","g","i","s","t","i","c","_","m","o","d","e","l","_">>
S_scaler == <<"s","c","a","l","e","r","_">>

\* the characters of the file names in the order of their code points
Alphabet == <<".">> \o Digits \o <<"_">> \o Lower

CharCode(c) == CHOOSE i \in 1..Len(Alphabet) : Alphabet[i] = c

\* a < b for two str values
StrLess(a, b) ==
    \E k \in 1..(Len(b)) :
        /\ k <= Len(a) + 1
        /\ \A j \in 1..(k - 1) : a[j] = b[j]
        /\ (k = Len(a) + 1 \/ CharCode(a[k]) < CharCode(b[k]))

\* max(timestamps)
StrMax(strs) == CHOOSE m \in strs : \A s \in strs : s = m \/ StrLess(s, m)

\* f.endswith(suffix)
EndsWith(f, suffix) ==
    Len(f) >= Len(suffix) /\ SubSeq(f, Len(f) - Len(suffix) + 1, Len(f)) = suffix

\* file.split(sep)[-1]: what follows the last sep
SplitLast(file, sep) ==
    IF \A i \in 1..Len(file) : file[i] # sep THEN file
    ELSE LET k == CHOOSE i \in 1..Len(file) :
                      file[i] = sep /\ \A j \in (i + 1)..Len(file) : file[j] # sep
         IN  SubSeq(file, k + 1, Len(file))

\* s.replace(sub, '')
RECURSIVE RemoveSub(_, _)
RemoveSub(s, sub) ==
    IF ~Contains(s, sub) THEN s
    ELSE LET k == CHOOSE i \in 0..(Len(s) - Len(sub)) :
                      /\ SubSeq(s, i + 1, i + Len(sub)) = sub
                      /\ \A j \in 0..(i - 1) : SubSeq(s, j + 1, j + Len(sub)) # sub
         IN  SubSeq(s, 1, k) \o RemoveSub(SubSeq(s, k + Len(sub) + 1, Len(s)), sub)

\* the object that pickle.dump writes and pickle.load gives back
PickledModel(model) == [model |-> model, scaler |-> FreshScaler]

PickledScaler(scaler) == [model |-> NoModel, scaler |-> scaler]

\* MLService.__init__
NewService ==
    [knn_model |-> NoModel, svd_model |-> NoModel, logistic_model |-> NoModel,
     scaler |-> FreshScaler, models_trained |-> FALSE]

\* open(name, 'wb') and pickle.dump: the file of that name is created or replaced
WriteFile(files, name, content) ==
    {f \in files : f.name # name} \cup {[name |-> name, content |-> content]}

\* os.path.exists
FileExists(files, name) == \E f \in files : f.name = name

\* pickle.load(open(name, 'rb'))
ReadFile(files, name) == (CHOOSE f \in files : f.name = name).content

\* what a training run meets: the number of users with an embedding, whether
\* _prepare_training_data raises, how each of the three fits ends, and which
\* of the four writes of _save_models raises (0: none, 1: the first, before
\* anything is written, 4: the last, that of the scaler)
TrainCases ==
    {[users_count |-> n, prepare_raises |-> FALSE, knn |-> "trained", svd |-> "trained",
      logistic |-> "trained", save_fails_at |-> 0] : n \in {0, MinUsers - 1}}
    \cup {[users_count |-> MinUsers, prepare_raises |-> TRUE, knn |-> "trained",
           svd |-> "trained", logistic |-> "trained", save_fails_at |-> 0]}
    \cup {[users_count |-> MinUsers, prepare_raises |-> FALSE, knn |-> k, svd |-> s,
           logistic |-> l, save_fails_at |-> w] :
              k \in {"trained", "fit_fails"}, s \in {"trained", "fit_fails"},
              l \in {"trained", "split_fails", "fit_fails"}, w \in {0, 1, 4}}

\* the files that _save_models writes, in its order: a model is written when
\* it is not None, the scaler always
SaveWrites(ml, timestamp) ==
    (IF ml.knn_model # NoModel
     THEN << [at |-> 1, name |-> S_knn_model \o timestamp \o S_pkl,
              content |-> PickledModel(ml.knn_model)] >> ELSE <<>>)
    \o (IF ml.svd_model # NoModel
        THEN << [at |-> 2, name |-> S_svd_model \o timestamp \o S_pkl,
                 content |-> PickledModel(ml.svd_model)] >> ELSE <<>>)
    \o (IF ml.logistic_model # NoModel
        THEN << [at |-> 3, name |-> S_logistic_model \o timestamp \o S_pkl,
                 content |-> PickledModel(ml.logistic_model)] >> ELSE <<>>)
    \o << [at |-> 4, name |-> S_scaler \o timestamp \o S_pkl,
           content |-> PickledScaler(ml.scaler)] >>

RECURSIVE WriteAll(_, _, _)
WriteAll(files, writes, fails_at) ==
    IF writes = <<>> \/ Head(writes).at = fails_at THEN files
    ELSE WriteAll(WriteFile(files, Head(writes).name, Head(writes).content),
                  Tail(writes), fails_at)

\* ml_service.py _save_models: a write that raises ends the saving, the
\* exception is logged
SaveModels(files, ml, now, fails_at) ==
    WriteAll(files, SaveWrites(ml, Strftime(now)), fails_at)

\* the report of one of _train_knn_model, _train_svd_model, _train_logistic_model
FitStatus(outcome) == IF outcome = "trained" THEN "trained" ELSE "error"

NoFit == "not_run"

\* train_models without the test of the number of users
TrainModels_AnyCorpus(ml, files, run, now, case) ==
    IF case.prepare_raises
    THEN [ml |-> ml, files |-> files,
          result |-> [status |-> "error", knn |-> NoFit, svd |-> NoFit, logistic |-> NoFit]]
    ELSE LET fitted == [knn_model |-> IF case.knn = "trained" THEN run ELSE 0 - run,
                        svd_model |-> IF case.svd = "trained" THEN run ELSE 0 - run,
                        logistic_model |-> IF case.logistic = "trained" THEN run
                                           ELSE IF case.logistic = "fit_fails" THEN 0 - run
                                           ELSE ml.logistic_model,
                        scaler |-> [n_features |-> EmbeddingDim + 1 + 4, gen |-> run],
                        models_trained |-> TRUE]
         IN  [ml |-> fitted,
              files |-> SaveModels(files, fitted, now, case.save_fails_at),
              result |-> [status |-> "success", knn |-> FitStatus(case.knn),
                          svd |-> FitStatus(case.svd),
                          logistic |-> FitStatus(case.logistic)]]

\* ml_service.py train_models: training run number run, started at time now
TrainModels(ml, files, run, now, case) ==
    IF case.users_count < MinUsers
    THEN [ml |-> ml, files |-> files,
          result |-> [status |-> "insufficient_data", knn |-> NoFit, svd |-> NoFit,
                      logistic |-> NoFit]]
    ELSE IF case.prepare_raises
    THEN [ml |-> ml, files |-> files,
          result |-> [status |-> "error", knn |-> NoFit, svd |-> NoFit, logistic |-> NoFit]]
    ELSE LET fitted == [knn_model |-> IF case.knn = "trained" THEN run ELSE 0 - run,
                        svd_model |-> IF case.svd = "trained" THEN run ELSE 0 - run,
                        logistic_model |-> IF case.logistic = "trained" THEN run
                                           ELSE IF case.logistic = "fit_fails" THEN 0 - run
                                           ELSE ml.logistic_model,
                        scaler |-> [n_features |-> EmbeddingDim + 1 + 4, gen |-> run],
                        models_trained |-> TRUE]
         IN  [ml |-> fitted,
              files |-> SaveModels(files, fitted, now, case.save_fails_at),
              result |-> [status |-> "success", knn |-> FitStatus(case.knn),
                          svd |-> FitStatus(case.svd),
                          logistic |-> FitStatus(case.logistic)]]

\* the names that os.listdir gives and that end with '.pkl'
PklFiles(files) == {f.name : f \in {g \in files : EndsWith(g.name, S_pkl)}}

\* the timestamps that load_models extracts from the names
ExtractedTimestamps(files) ==
    {RemoveSub(SplitLast(n, "_"), S_pkl) :
        n \in {m \in PklFiles(files) : \E i \in 1..Len(m) : m[i] = "_"}}

\* the object loaded from the file of that name, or what is in memory when
\* there is no such file
LoadOr(files, name, current) ==
    IF FileExists(files, name) THEN ReadFile(files, name) ELSE current

\* load_models setting the trained flag before it looks for files
LoadModels_FlagFirst(ml, files) ==
    IF PklFiles(files) = {}
    THEN [ml |-> [ml EXCEPT !.models_trained = TRUE], result |-> FALSE]
    ELSE [ml |-> [ml EXCEPT !.models_trained = TRUE], result |-> TRUE]

\* ml_service.py load_models
LoadModels(ml, files) ==
    IF PklFiles(files) = {} THEN [ml |-> ml, result |-> FALSE]
    ELSE IF ExtractedTimestamps(files) = {} THEN [ml |-> ml, result |-> FALSE]
    ELSE LET latest_timestamp == StrMax(ExtractedTimestamps(files))
             knn_file == S_knn_model \o latest_timestamp \o S_pkl
             svd_file == S_svd_model \o latest_timestamp \o S_pkl
             logistic_file == S_logistic_model \o latest_timestamp \o S_pkl
             scaler_file == S_scaler \o latest_timestamp \o S_pkl
         IN  [ml |-> [knn_model |->
                          LoadOr(files, knn_file, PickledModel(ml.knn_model)).model,
                      svd_model |->
                          LoadOr(files, svd_file, PickledModel(ml.svd_model)).model,
                      logistic_model |->
                          LoadOr(files, logistic_file, PickledModel(ml.logistic_model)).model,
                      scaler |->
                          LoadOr(files, scaler_file, PickledScaler(ml.scaler)).scaler,
                      models_trained |-> TRUE],
              result |-> TRUE]

\* ml_service.py get_model_status (the scaler is never None)
GetModelStatus(ml) ==
    [models_trained |-> ml.models_trained,
     knn_model |-> ml.knn_model # NoModel,
     svd_model |-> ml.svd_model # NoModel,
     logistic_model |-> ml.logistic_model # NoModel,
     scaler |-> TRUE]

InitML ==
    /\ AllocUnused
    /\ input = "none"
    /\ output = "none"
    /\ ml_service = NewService
    /\ model_files = {}
    /\ clock = 1
    /\ compatibility_scores = {}
    /\ phase = "start"

\* POST /train-models: result = await ml_service.train_models(db)
Train ==
    /\ clock <= MaxClock
    /\ \E case \in TrainCases :
         \E r \in {TrainModels(ml_service, model_files, clock, Times[clock], case)} :
            /\ ml_service' = r.ml
            /\ model_files' = r.files
            /\ output' = r.result
            /\ input' = [op |-> "train", case |-> case, ml_service |-> ml_service,
                         model_files |-> model_files]
    /\ clock' = clock + 1
    /\ phase' = "trained"
    /\ UNCHANGED <<allocvars, compatibility_scores>>

\* success = await ml_service.load_models()
Load ==
    /\ \E r \in {LoadModels(ml_service, model_files)} :
            /\ ml_service' = r.ml
            /\ output' = r.result
    /\ input' = [op |-> "load", ml_service |-> ml_service, model_files |-> model_files]
    /\ phase' = "loaded"
    /\ UNCHANGED <<allocvars, model_files, clock, compatibility_scores>>

\* model_status = ml_service.get_model_status()
GetStatus ==
    /\ output' = GetModelStatus(ml_service)
    /\ input' = [op |-> "status"]
    /\ phase' = "status"
    /\ UNCHANGED <<allocvars, ml_service, model_files, clock, compatibility_scores>>

\* the service process starts again: ml_service = MLService()
Restart ==
    /\ ml_service' = NewService
    /\ output' = "none"
    /\ input' = [op |-> "restart"]
    /\ phase' = "restarted"
    /\ UNCHANGED <<allocvars, model_files, clock, compatibility_scores>>

NextML == Train \/ Load \/ GetStatus \/ Restart

SpecML == InitML /\ [][NextML]_vars

\* C18: train_models on fewer than 10 users with an embedding returns
\* insufficient_data and leaves the three models, the scaler, the trained flag
\* and the files of the model directory as they were
C18_InsufficientDataNoMutation ==
    (phase = "trained" /\ input.case.users_count < 10) =>
        /\ output.status = "insufficient_data"
        /\ ml_service = input.ml_service
        /\ model_files = input.model_files

\* a run on 9 users while models of an earlier run are in memory and on disk
C18_Witness ==
    /\ phase = "trained"
    /\ input.case.users_count = 9
    /\ output.status = "insufficient_data"
    /\ ml_service.knn_model = 1
    /\ ml_service.models_trained
    /\ Cardinality(model_files) = 4

\* C19: load_models called when the model directory holds no artifact returns
\* False, raises nothing and leaves the models, the scaler and the trained
\* flag as they were
C19_LoadWithoutArtifacts ==
    (phase = "loaded" /\ input.model_files = {}) =>
        /\ output = FALSE
        /\ ml_service = input.ml_service

\* a load in a fresh process with an empty model directory
C19_Witness ==
    /\ phase = "loaded"
    /\ input.model_files = {}
    /\ input.ml_service = NewService
    /\ output = FALSE
    /\ ~ml_service.models_trained

\* the timestamp <YYYYMMDD>_<HHMMSS> in an artifact name
FullTimestamp(name) == SubSeq(name, Len(name) - Len(S_pkl) - 14, Len(name) - Len(S_pkl))

\* the four artifact names of the bundle of a timestamp
BundleNames(timestamp) ==
    [knn_model |-> S_knn_model \o timestamp \o S_pkl,
     svd_model |-> S_svd_model \o timestamp \o S_pkl,
     logistic_model |-> S_logistic_model \o timestamp \o S_pkl,
     scaler |-> S_scaler \o timestamp \o S_pkl]

\* the persisted bundle with the maximum timestamp is complete
LatestBundleComplete(files) ==
    /\ files # {}
    /\ LET latest == BundleNames(StrMax({FullTimestamp(f.name) : f \in files}))
       IN  \A k \in DOMAIN latest : FileExists(files, latest[k])

\* C20 (as claimed): after a training run has persisted its four artifacts,
\* load_models in a process with no models in memory returns True, the models
\* and the scaler in memory are the ones persisted under the maximum
\* timestamp, and get_model_status reports all of them loaded
C20_LoadLatestBundle ==
    (phase = "loaded" /\ input.ml_service = NewService
        /\ LatestBundleComplete(input.model_files)) =>
        LET latest == BundleNames(StrMax({FullTimestamp(f.name) : f \in model_files}))
        IN  /\ output = TRUE
            /\ ml_service.knn_model = ReadFile(model_files, latest.knn_model).model
            /\ ml_service.svd_model = ReadFile(model_files, latest.svd_model).model
            /\ ml_service.logistic_model = ReadFile(model_files, latest.logistic_model).model
            /\ ml_service.scaler = ReadFile(model_files, latest.scaler).scaler
            /\ GetModelStatus(ml_service)
                  = [models_trained |-> TRUE, knn_model |-> TRUE, svd_model |-> TRUE,
                     logistic_model |-> TRUE, scaler |-> TRUE]

\* the training run that wrote the file of that name: the position in Times of
\* the moment that its name carries
RunOfFile(name) ==
    CHOOSE run \in 1..Len(Times) : Strftime(Times[run]) = FullTimestamp(name)

\* the timestamp that load_models extracts from a name
ExtractedOf(name) == RemoveSub(SplitLast(name, "_"), S_pkl)

\* C21 (as claimed): the timestamps that load_models extracts from the artifact
\* names are in lexical order as the runs that wrote them are in time, so the
\* lexical maximum is that of the most recent run
C21_LexicalIsChronological ==
    \A f, g \in model_files :
        RunOfFile(f.name) < RunOfFile(g.name)
            => StrLess(ExtractedOf(f.name), ExtractedOf(g.name))

(***************************************************************************)
(* A ranking request (GET /match/{user_id}) served by the process while    *)
(* training runs, loads and restarts go on.  The request gives way to the  *)
(* other requests of the process where it awaits the store or the          *)
(* embedding service; training and loading run between two such points.    *)
(***************************************************************************)
\* the request before its first step
NewMatchRequest ==
    [status |-> 0, model_status |-> GetModelStatus(NewService), other_users |-> <<>>,
     used |-> <<>>, matches |-> <<>>]

\* the other users that the store returns to the request
ServeOtherUsers ==
    {o \in OtherUsers : Len(o) = 2 /\ o[1].user2.id = 2 /\ o[2].user2.id = 4}

InitServe ==
    /\ users = <<>>
    /\ rooms = <<>>
    /\ room_assignments = EmptyBag
    /\ is_occupied = <<>>
    /\ strategy = "none"
    /\ response = NoResponse
    /\ pc = [p \in Procs |-> IF p = "p1" THEN "start" ELSE "unused"]
    /\ req = [p \in Procs |-> IF p = "p1" THEN NewMatchRequest ELSE <<>>]
    /\ input = "none"
    /\ output = "none"
    /\ ml_service = NewService
    /\ model_files = {}
    /\ clock = 1
    /\ compatibility_scores = {}
    /\ phase = "start"

\* get_matches: user = await db.fetchrow(...); 404 without the user, 400
\* without its embedding
MatchFetchUser(p) ==
    /\ pc[p] = "start"
    /\ \E found \in {200, 404, 400} :
         IF found = 200
         THEN /\ pc' = [pc EXCEPT ![p] = "check"]
              /\ UNCHANGED req
         ELSE /\ pc' = [pc EXCEPT ![p] = "done"]
              /\ req' = [req EXCEPT ![p].status = found]
    /\ UNCHANGED <<mlvars, users, rooms, room_assignments, is_occupied, strategy,
                   response, phase>>

\* get_matches: the test of models_trained, with load_models when it is not
\* set; 503 when it is still not set
MatchCheckModels(p) ==
    /\ pc[p] = "check"
    /\ \E l \in {IF ml_service.models_trained THEN [ml |-> ml_service, result |-> TRUE]
                 ELSE LoadModels(ml_service, model_files)} :
         /\ ml_service' = l.ml
         /\ IF l.ml.models_trained
            THEN /\ pc' = [pc EXCEPT ![p] = "fetch"]
                 /\ req' = [req EXCEPT ![p].model_status = GetModelStatus(l.ml)]
            ELSE /\ pc' = [pc EXCEPT ![p] = "done"]
                 /\ req' = [req EXCEPT ![p].model_status = GetModelStatus(l.ml),
                                       ![p].status = 503]
    /\ UNCHANGED <<users, rooms, room_assignments, is_occupied, strategy, response, phase,
                   input, output, model_files, clock, compatibility_scores>>

\* _get_comprehensive_matches: other_users = await db.fetch(...)
MatchFetchOthers(p) ==
    /\ pc[p] = "fetch"
    /\ \E o \in ServeOtherUsers \cup {<<>>} :
         IF o = <<>>
         THEN /\ pc' = [pc EXCEPT ![p] = "done"]
              /\ req' = [req EXCEPT ![p].status = 200]
         ELSE /\ pc' = [pc EXCEPT ![p] = "score"]
              /\ req' = [req EXCEPT ![p].other_users = o]
    /\ UNCHANGED <<mlvars, users, rooms, room_assignments, is_occupied, strategy,
                   response, phase>>

\* _get_comprehensive_matches: the next turn of the loop, from the return of
\* await calculate_similarity to the append; after the last turn the sort,
\* the slice (limit 5) and the response
MatchScoreCandidate(p) ==
    /\ pc[p] = "score"
    /\ \E tie \in {0, 1} :
         \E sm \in {ScoredMatches(<<req[p].other_users[Len(req[p].matches) + 1]>>,
                                  ml_service, tie)} :
            LET matches == req[p].matches \o sm
                used    == Append(req[p].used, ml_service)
            IN  IF Len(matches) < Len(req[p].other_users)
                THEN /\ req' = [req EXCEPT ![p].matches = matches, ![p].used = used]
                     /\ UNCHANGED pc
                ELSE /\ req' = [req EXCEPT ![p].matches = SliceTo(SortMatches(matches), 5),
                                           ![p].used = used, ![p].status = 200]
                     /\ pc' = [pc EXCEPT ![p] = "done"]
    /\ UNCHANGED <<mlvars, users, rooms, room_assignments, is_occupied, strategy,
                   response, phase>>

\* the process is stopped and started again between two requests
RestartIdle ==
    /\ \A p \in {"p1"} : pc[p] = "start"
    /\ Restart

NextServe ==
    \/ Train
    \/ Load
    \/ RestartIdle
    \/ \E p \in {"p1"} :
          \/ MatchFetchUser(p)
          \/ MatchCheckModels(p)
          \/ MatchFetchOthers(p)
          \/ MatchScoreCandidate(p)

SpecServe == InitServe /\ [][NextServe]_vars

\* the training runs of the fitted objects that the scoring of one pair calls:
\* the scaler in each of the three model scores, a model after the scaler has
\* transformed the vector
GenerationsUsed(pair, ml) ==
    (IF {ml.knn_model, ml.svd_model, ml.logistic_model} # {NoModel} /\ ml.scaler.gen > 0
     THEN {ml.scaler.gen} ELSE {})
    \cup {g \in {ml.knn_model, ml.svd_model} :
             g > 0 /\ ~TransformRaises(ml.scaler, FeatureLen(pair.user1))}
    \cup {g \in {ml.logistic_model} :
             g > 0 /\ ~TransformRaises(ml.scaler,
                                       CombinedFeatureLen(pair.user1, pair.user2))}

\* C22 (as claimed): a ranking request that overlaps training runs or loads
\* scores all its candidates with models and a scaler of one single generation
C22_OneGenerationPerRequest ==
    \A p \in {"p1"} :
        (pc[p] = "done" /\ req[p].status = 200) =>
            Cardinality(UNION {GenerationsUsed(req[p].other_users[i], req[p].used[i]) :
                                  i \in 1..Len(req[p].used)}) <= 1

\* C25 (as claimed): a ranking request that, after its load attempt, finds no
\* neighbor index, no reducer and no classifier loaded ends with 503 and ranks
\* nothing
C25_NoModelsNoRanking ==
    \A p \in {"p1"} :
        (/\ pc[p] \in {"fetch", "score", "done"}
         /\ req[p].status \notin {404, 400}
         /\ ~req[p].model_status.knn_model
         /\ ~req[p].model_status.svd_model
         /\ ~req[p].model_status.logistic_model)
            => (pc[p] = "done" /\ req[p].status = 503 /\ req[p].matches = <<>>)

(***************************************************************************)
(* POST /calculate-compatibility/{user1_id}/{user2_id}: the scores of a    *)
(* pair and their row in the table compatibility_scores.                   *)
(***************************************************************************)
MaxCalls == 3

\* the rows of the users table
ScoreUsers ==
    [id \in {1, 2} |-> MatchUser(id, MatchProfiles[id], EmbeddingDim)]

\* what the embedding service and the models answer for a pair at one call
ScoreAnswers ==
    {[sim |-> [raises |-> FALSE, value |-> v],
      knn |-> [raises |-> FALSE, indices |-> <<0, 2, 3, 5, 7>>,
               distances |-> <<0, d, 40000, 100000, 150002>>],
      svd |-> [raises |-> FALSE, nan |-> FALSE, value |-> 63330],
      prob |-> 73001] : v \in {25004, 100000}, d \in {12346, 50000}}

InitScores ==
    /\ AllocUnused
    /\ input = "none"
    /\ output = "none"
    /\ ml_service \in {ml \in MLStates : ml.knn_model = 1 /\ ml.svd_model = 1
                                          /\ ml.logistic_model = 1}
    /\ model_files = "none"
    /\ clock = 1
    /\ compatibility_scores = {}
    /\ phase = "start"

\* INSERT ... ON CONFLICT (user1_id, user2_id) DO UPDATE of
\* _store_compatibility_score, on the table with UNIQUE(user1_id, user2_id)
StoreCompatibilityScore(table, user1_id, user2_id, scores, now) ==
    {r \in table : ~(r.user1_id = user1_id /\ r.user2_id = user2_id)}
    \cup {[user1_id |-> user1_id, user2_id |-> user2_id, knn_score |-> scores.knn_score,
           svd_score |-> scores.svd_score, final_score |-> scores.final_score,
           created_at |-> now]}

\* calculate_compatibility(user1_id, user2_id)
CalculateCompatibility ==
    /\ clock <= MaxCalls
    /\ \E user1_id, user2_id \in {1, 2, 3}, answer \in ScoreAnswers, tie \in {0, 1} :
         /\ input' = [user1_id |-> user1_id, user2_id |-> user2_id]
         /\ IF user1_id \notin DOMAIN ScoreUsers \/ user2_id \notin DOMAIN ScoreUsers
            THEN /\ output' = 404
                 /\ phase' = "not_found"
                 /\ UNCHANGED compatibility_scores
            ELSE \E scores \in {MatchScore([user1 |-> ScoreUsers[user1_id],
                                            user2 |-> ScoreUsers[user2_id],
                                            sim |-> answer.sim, knn |-> answer.knn,
                                            svd |-> answer.svd, prob |-> answer.prob],
                                           ml_service, tie)} :
                    /\ output' = scores
                    /\ phase' = "stored"
                    /\ compatibility_scores' =
                          StoreCompatibilityScore(compatibility_scores, user1_id, user2_id,
                                                  scores, clock)
    /\ clock' = clock + 1
    /\ UNCHANGED <<allocvars, ml_service, model_files>>

NextScores == CalculateCompatibility

SpecScores == InitScores /\ [][NextScores]_vars

\* the stored rows of the unordered pair of the last call
RowsOfPair ==
    {r \in compatibility_scores :
        {r.user1_id, r.user2_id} = {input.user1_id, input.user2_id}}

CorpusIds == [i \in 1..MinUsers |-> i]

\* the user whose features are at a position of the corpus (positions count
\* from 0)
UserAtPosition(pos) == CorpusIds[pos + 1]

\* C24 (as claimed): the neighbor score of (user1, user2) is non-zero only if
\* user2 is the user at one of the corpus positions that kneighbors returned
C24_NeighborScoreOnlyForNeighbors ==
    (phase = "scored" /\ input.kind = "pair" /\ output.scores.knn_score # 0) =>
        \E i \in 1..Len(input.pair.knn.indices) :
            UserAtPosition(input.pair.knn.indices[i]) = input.pair.user2.id

\* C26 (as claimed): the scaler and the classifier are fitted in training to
\* vectors of the length of the pair vector of inference, so a candidate scored
\* with a trained classifier gets the probability, not the 0 of the failure path
C26_TrainedClassifierScores ==
    \A p \in {"p1"} :
        pc[p] = "score" =>
            \A i \in 1..Len(req[p].matches) :
                req[p].used[i].logistic_model > 0 =>
                    /\ req[p].used[i].scaler.n_features =
                          CombinedFeatureLen(req[p].other_users[i].user1,
                                             req[p].other_users[i].user2)
                    /\ req[p].matches[i].scores.logistic_score # 0

\* C27 (as claimed): a training run reports success only if the neighbor index,
\* the reducer and the classifier were all fitted in that run and the four
\* artifacts of the run are persisted
C27_SuccessMeansAllFittedAndSaved ==
    (phase = "trained" /\ output.status = "success") =>
        /\ output.knn = "trained" /\ output.svd = "trained" /\ output.logistic = "trained"
        /\ ml_service.knn_model = clock - 1
        /\ ml_service.svd_model = clock - 1
        /\ ml_service.logistic_model = clock - 1
        /\ LET bundle == BundleNames(Strftime(Times[clock - 1]))
           IN  \A k \in DOMAIN bundle : FileExists(model_files, bundle[k])

\* the rooms of the list that the allocation list out gives to no user
RoomsLeft(out) == {j \in 1..Len(rooms) : AssignedTo(out, rooms[j].id) = {}}

\* C28 (as claimed): in budget_first a user is reported budget_too_low only if
\* the user's parsed budget is below the price of every room that the run left
\* without a user
C28_TooLowOnlyBelowRoomsLeft ==
    (Returned /\ strategy = "budget_first" /\ response.success) =>
        \A i \in 1..Len(users) :
            BudgetTooLow(response.allocations, users[i]) =>
                \A j \in RoomsLeft(response.allocations) :
                    ExtractBudgetValue(users[i].budget_range) < rooms[j].monthly_rent

(***************************************************************************)
(* _group_users_by_compatibility on lists long enough for a full group.    *)
(***************************************************************************)
MaxGroupUsers == 5

GroupUserLists ==
    UNION {{List([i \in 1..n |-> UserRow(IdAt(i, n), ps[i])]) :
               ps \in [1..n -> 1..Len(Profiles)]} : n \in 0..MaxGroupUsers}

InitGroup ==
    /\ users \in GroupUserLists
    /\ rooms = <<>>
    /\ room_assignments = EmptyBag
    /\ is_occupied = <<>>
    /\ strategy = "none"
    /\ response = NoResponse
    /\ pc = Idle
    /\ req = NoReq
    /\ MLUnused
    /\ phase = "start"

\* user_groups = await self._group_users_by_compatibility(users)
GroupUsers ==
    /\ phase = "start"
    /\ output' = GroupUsersByCompatibility(users)
    /\ phase' = "grouped"
    /\ UNCHANGED <<allocvars, input, ml_service, model_files, clock, compatibility_scores>>

NextGroup == GroupUsers

SpecGroup == InitGroup /\ [][NextGroup]_vars

\* the places <<group, position>> of the groups at which the user of that id stands
PlacesOf(groups, id) ==
    {gk \in UNION {{<<g, k>> : k \in 1..Len(groups[g])} : g \in 1..Len(groups)} :
        groups[gk[1]][gk[2]].id = id}

\* C29: the groups of _group_users_by_compatibility are a partition of the
\* users (every user in exactly one group, every member a user of the list, no
\* group empty), no group has more than 4 members, and every member after the
\* first has a compatibility score of at least 0.6 with the first member
C29_GroupsArePartition ==
    phase = "grouped" =>
        /\ \A i \in 1..Len(users) : Cardinality(PlacesOf(output, users[i].id)) = 1
        /\ \A g \in 1..Len(output) :
              /\ Len(output[g]) >= 1
              /\ Len(output[g]) <= 4
              /\ \A k \in 1..Len(output[g]) :
                    /\ \E i \in 1..Len(users) : users[i] = output[g][k]
                    /\ k > 1 => CompatibilityScore(output[g][1], output[g][k]) >= 60

C29_Witness ==
    /\ phase = "grouped"
    /\ Len(users) = 5
    /\ \E g \in 1..Len(output) : Len(output[g]) = 4
    /\ \E g \in 1..Len(output) : Len(output[g]) = 1
    /\ \E i, j \in 1..Len(users) : CompatibilityScore(users[i], users[j]) < 60

\* the score of the pair that the allocation list out gives user i of the list
\* (room j of the list); -1 when it gives none
ScoreOfUser(out, i) ==
    IF \E k \in 1..Len(out), j \in 1..Len(rooms) :
           out[k].assigned /\ out[k].user_id = users[i].id /\ out[k].room_id = rooms[j].id
    THEN LET j == CHOOSE j \in 1..Len(rooms) :
                     \E k \in 1..Len(out) : /\ out[k].assigned
                                            /\ out[k].user_id = users[i].id
                                            /\ out[k].room_id = rooms[j].id
         IN  CalculateUserRoomScore(users[i], rooms[j])
    ELSE -1

ScoreOfRoom(out, j) ==
    IF \E k \in 1..Len(out), i \in 1..Len(users) :
           out[k].assigned /\ out[k].user_id = users[i].id /\ out[k].room_id = rooms[j].id
    THEN LET i == CHOOSE i \in 1..Len(users) :
                     \E k \in 1..Len(out) : /\ out[k].assigned
                                            /\ out[k].user_id = users[i].id
                                            /\ out[k].room_id = rooms[j].id
         IN  CalculateUserRoomScore(users[i], rooms[j])
    ELSE -1

\* each user has one record and at most one room, each room at most one user,
\* no user and room both score higher with each other than with what they got
\* (or got nothing), and min(#users, #rooms) users are assigned
StableMatching(out) ==
    /\ \A i \in 1..Len(users) : Cardinality(RecordsOf(out, users[i].id)) = 1
    /\ \A j \in 1..Len(rooms) : Cardinality(AssignedTo(out, rooms[j].id)) <= 1
    /\ \A i \in 1..Len(users), j \in 1..Len(rooms) :
          ~(/\ CalculateUserRoomScore(users[i], rooms[j]) > ScoreOfUser(out, i)
            /\ CalculateUserRoomScore(users[i], rooms[j]) > ScoreOfRoom(out, j))
    /\ Cardinality({k \in 1..Len(out) : out[k].assigned}) = Min(Len(users), Len(rooms))

\* C30 (as claimed): for users and rooms the balanced strategy returns a stable
\* matching that assigns min(#users, #rooms) users
C30_BalancedStableMatching ==
    (Returned /\ strategy = "balanced" /\ users # <<>> /\ rooms # <<>>) =>
        StableMatching(response.allocations)

\* the stable matching in the runs in which the strategy returns
BalancedStableWhenReturned ==
    (Returned /\ strategy = "balanced" /\ response.success) =>
        StableMatching(response.allocations)
====
